---- MODULE Spec2Model ----
(***************************************************************************)
(* A model of the LogForgeryBlocker agent and log proxy.                   *)
(*                                                                         *)
(*   SpecSnap   the Snapshot object (agent/log.py) used by the event loop  *)
(*              thread (add_record) and by scheduler threads               *)
(*              (post_snapshot -> upload_prep), with its RLock.            *)
(*   SpecLead   the agent's event loop, acceptor, scheduler (verify_log)   *)
(*              and validator worker with every proxy connecting.          *)
(*   SpecVal    the same threads with one proxy and records that differ.   *)
(*   SpecWorker the same threads with one proxy, the worker thread fair.   *)
(*   SpecWatch  the proxy's watcher of one file: setup, the notifier       *)
(*              thread's modify events, initialize, read_records.          *)
(*   SpecFan    the registry shared by the acceptor, the event loop and    *)
(*              the scheduler's request_log_content, one iteration at a    *)
(*              time.                                                      *)
(*   SpecServe  the proxy's content server answering one GetLogContent.    *)
(*   SpecSend   NetworkConnection.send called from two threads over a      *)
(*              socket that takes part of what it is given.                *)
(*   SpecCodec  a message serialized, received and deserialized.           *)
(*   SpecColl   the log collector over several logs, and the backend.      *)
(*   SpecSched  LFBSched.sync_config and the periodic upload job.          *)
(*   SpecMaint  the state-maintenance job beside the collector's callers.  *)
(*   SpecLocks  the mutexes of the agent as its threads take and release   *)
(*              them.                                                      *)
(*   SpecWM     the proxy's watch manager over the files of a directory.   *)
(*   SpecRecv   NetworkConnection.receive over a stream of framed          *)
(*              messages that arrives in pieces.                           *)
(*   SpecBatch  the content server streaming a range of a longer file.     *)
(*                                                                         *)
(* Strings are sequences of atoms.  An atom is a character [ch |-> c] or   *)
(* the hex digest of a string, [h |-> s]: SHA-256 is taken to be           *)
(* collision free, and a digest has a fixed length, so that the            *)
(* concatenation digest + data determines both of its parts.               *)
(***************************************************************************)
EXTENDS Naturals, Integers, Sequences, FiniteSets, TLC

\* ------------------------------------------------------------------ bounds
\* add_record calls made on the snapshot
MaxRecords == 3
\* post_snapshot calls made on the snapshot
MaxUploads == 3
\* largest first_line a snapshot is rehydrated with
MaxFirstLine == 1
\* proxies that connect to the agent
NumProxies == 2
\* records covered by the snapshots the backend holds for the log
MaxLines == 2
\* largest firstLine of the first snapshot the backend holds
MaxBegin == 1
\* records of one LogContentData batch
MaxBatch == 2
\* characters the watched file grows to
MaxFileLen == 4
\* characters of one write to the watched file
MaxWrite == 2
\* largest position the agent answers to GetLogPosition
MaxPosition == 2
\* modify events queued by inotify
MaxEvents == 2

\* ----------------------------------------------------------------- strings
Ch(c) == [ch |-> c]
EmptyStr == <<>>
\* record.data of the records the proxies send: an empty line, "a" and "b"
Data == {EmptyStr, <<Ch("a")>>, <<Ch("b")>>}

\* Snapshot.hash_fun: the hex digest of data
hash_fun(data) == << [h |-> data] >>

\* the fold H(...H(H(H("") + r1) + r2)... + rn) over a sequence of records
RECURSIVE HashFold(_)
HashFold(rs) ==
    IF rs = <<>> THEN hash_fun(EmptyStr)
    ELSE hash_fun(HashFold(SubSeq(rs, 1, Len(rs) - 1)) \o rs[Len(rs)])

VARIABLES
    \* ---- Snapshot (agent/log.py)
    first_line,     \* Snapshot.first_line
    line_count,     \* Snapshot.line_count
    cum_hash,       \* Snapshot.cum_hash
    mutex,          \* Snapshot.mutex (RLock): the depth each thread holds it at
    spc,            \* position of each thread in add_record / post_snapshot
    slocal,         \* each thread's local: the record it adds, the dict it got
    initial_first_line, \* first_line the snapshot was created with
    added,          \* records of the completed add_record calls, in order
    since_reset,    \* those added since the creation or the last reset
    prepped,        \* results returned by upload_prep, in order
    posts,          \* bodies of the POST /snapshot calls, in order
    \* ---- agent: registry, content requests, aggregate, validator
    agent_running,  \* FALSE once the agent process has left through os._exit(1)
    connections,    \* LfbAgent.__connections, in the order of add_client
    sock,           \* per proxy: "unconnected", "open" or "closed"
    req_status,     \* ContentRequest.__status of the proxy's child, "NONE" without one
    req_map,        \* whether ContentRequestHandler.__requests holds the child's id
    req_content,    \* ContentRequest.__content, the queue of received records
    req_next,       \* ContentRequest.__next_record_ind
    begin_record,   \* ContentRequest.__begin_record of the children
    end_record,     \* ContentRequest.__end_record of the children
    agg_requests,   \* AgentContentRequest.__requests
    agg_lead,       \* AgentContentRequest.__lead
    backend_snapshots,   \* what GET /snapshot/agent_for_log returns
    remaining_snapshots, \* _LogValidatorJob.remaining_snapshots
    fingerprint,         \* _LogValidatorJob.fingerprint
    records_counter,     \* _LogValidatorJob.records_counter
    validation_finished, \* _LogValidatorJob.validation_finished
    job_state,      \* "none", "queued" (in LogValidator.requests), "dropped", "lost"
    posted,         \* isCorrect of the POST /log/{id}/verification calls, in order
    wpc,            \* position of the validator worker thread
    wret,           \* where get_lead returns to
    wi,             \* loop index of __try_resolve_lead / __select_lead
    wseen,          \* whether the worker's loop over self.requests visited the job
    orig,           \* the records the backend's fingerprints were folded over
    faithful,       \* per proxy: every record accepted from it is the original one
    elected,        \* every request get_lead has elected
    crash,          \* the exception that ended the event loop, and who sent its cause
    ignored,        \* whether a message was handled for a child that had been dropped
    first_found,    \* the first proxy whose child became RECEIVING, 0 before
    \* ---- proxy: the watcher of one file (proxy/filesystem)
    file_content,   \* the characters of the watched file
    stream_pos,     \* how many of them LogFileWatcher.__file_stream has read
    prev_line,      \* LogFileWatcher.__prev_line
    to_skip,        \* LogFileWatcher.__to_skip
    initialized,    \* LogFileWatcher.__initialized
    mpc,            \* position of the proxy's main thread for this file
    modify_events,  \* IN_MODIFY events queued for the notifier thread
    sent,           \* the messages the proxy sent for this file, in order
    start_line,     \* the position of the LogPositionResponse, 0 before it
    proxy_running,  \* FALSE once the proxy process has left through os._exit(1)
    \* ---- agent: request_log_content's loop over the registry, step by step
    fan_pc,         \* "idle", "iter" (in the for loop) or "done" (job appended)
    fan_idx,        \* the list iterator's index into LfbAgent.__connections
    fan_out,        \* request_log_content's local list "requests"
    fan_began,      \* the connections registered when the call began
    \* ---- proxy: FileLogContentManager answering one GetLogContent
    cm_pc,          \* position in handle_log_content_request, "exited" after os._exit(1)
    cm_watched,     \* watch_manager.contains_watch(log_name)
    cm_file,        \* the characters of the file at the log's path
    cm_begin,       \* begin_record of the request
    cm_end,         \* end_record of the request
    cm_record,      \* the local "record"
    cm_stream,      \* the lines LogStream's file object has not yielded yet
    cm_sent,        \* the messages sent for the request, in order
    \* ---- NetworkConnection.send over a BufferingSocket, from two threads
    send_mutex,     \* NetworkConnection.__send_mutex: its holder, "free" without one
    send_queue,     \* BufferingSocket.__send_queue, a deque of byte strings
    wire,           \* the bytes socket.send accepted, in order
    acquired,       \* the messages whose send passed the acquire, in that order
    send_pc,        \* per thread: its position in send / write
    send_local,     \* per thread: its buffer, then write's local to_send[sent:]
    send_count,     \* per thread: the send calls it has made
    \* ---- framing: one message serialized, received and deserialized
    codec_pc,       \* "off", "new", "framed" or "decoded"
    codec_msg,      \* the message handed to serialize
    codec_frame,    \* the buffer serialize returned
    codec_out,      \* what the receiver's from_raw returned, or an error
    \* ---- agent: ListLogCollector over several logs, and the backend
    rehydrated,     \* the names GET /log/for_agent returned at start
    backend_id,     \* per name: the id the backend gave the log, 0 without one
    backend_calls,  \* the POST /log and POST /snapshot calls, in order
    coll_order,     \* the keys of ListLogCollector.snapshots, in insertion order
    coll_snap,      \* per key: the snapshot's log_id, first_line, line_count
    coll_pc,        \* the event loop in collect_record: what post_log returned
    coll_n,         \* AddRecord messages handled
    pos_reply,      \* the LogPositionResponse messages sent, in order
    up,             \* per job thread in upload_records: its dict iterator
    coll_range,     \* least and greatest log_size() value since log_size was called
    coll_hist,      \* per name: the first_line its snapshot began with, records collected
    \* ---- agent: LFBSched and the periodic upload job
    sched_job,      \* LFBSched.interval_sync_job: the Job's id and interval, or NoJob
    sched_live,     \* the periodic upload jobs the scheduler holds
    sched_added,    \* add_job calls made for the periodic upload
    max_log_size,   \* LFBSched.max_log_size
    last_sync,      \* the last sync_config: what it read, found and did
    sm,             \* the state-maintenance job: its position in log_size, its outcome
    \* ---- agent: the locks of its threads
    held,           \* per thread: the locks it holds, in the order it acquired them
    lk_prog,        \* per thread: the acquires and releases its running call has left
    \* ---- proxy: UnixFileWatcherManager over one watched directory
    dir_files,      \* the names of the files in the watched directory
    wm_events,      \* the keys of UnixFileWatcherManager.__events below the directory
    wm_initialized, \* the watched files whose FileEvent is initialized
    wm_pending,     \* the files whose GetLogPosition has no response yet
    wm_emitted,     \* per file: on_record_added calls made
    wm_last,        \* the anomaly the last handled event was, and whether it warned
    wm_steps,       \* events and messages handled
    wm_alive,       \* FALSE once the proxy process has ended
    \* ---- NetworkConnection.receive over a BufferingSocket
    rx_in,          \* the messages the peer sent, in order
    rx_sent,        \* the bytes of them that reach the socket before the peer closes
    rx_stream,      \* the bytes of them that recv has not returned yet
    rx_buffer,      \* BufferingSocket.__buffer, as far as it was ever written
    rx_position,    \* BufferingSocket.__position
    rx_count,       \* BufferingSocket.__count_to_read
    rx_msg,         \* NetworkConnection.__current_message: its meta, or NoMessage
    rx_delivered,   \* the messages handed to the deserializer, in order
    rx_pc           \* "idle", "header" (in read(False)), "body" (in read()), "raised"

snapVars == <<first_line, line_count, cum_hash, mutex, spc, slocal,
              initial_first_line, added, since_reset, prepped, posts>>

agentVars == <<agent_running, connections, sock, req_status, req_map, req_content,
               req_next, begin_record, end_record, agg_requests, agg_lead,
               backend_snapshots, remaining_snapshots, fingerprint, records_counter,
               validation_finished, job_state, posted, wpc, wret, wi, wseen,
               orig, faithful, elected, crash, ignored, first_found>>

watchVars == <<file_content, stream_pos, prev_line, to_skip, initialized, mpc,
               modify_events, sent, start_line, proxy_running>>

fanVars == <<fan_pc, fan_idx, fan_out, fan_began>>

serveVars == <<cm_pc, cm_watched, cm_file, cm_begin, cm_end, cm_record,
               cm_stream, cm_sent>>

sendVars == <<send_mutex, send_queue, wire, acquired, send_pc, send_local,
              send_count>>

codecVars == <<codec_pc, codec_msg, codec_frame, codec_out>>

collVars == <<rehydrated, backend_id, backend_calls, coll_order, coll_snap,
              coll_pc, coll_n, pos_reply, up, coll_range, coll_hist>>

schedVars == <<sched_job, sched_live, sched_added, max_log_size, last_sync, sm>>

lockVars == <<held, lk_prog>>

\* the components modelled last
wmVars == <<dir_files, wm_events, wm_initialized, wm_pending, wm_emitted, wm_last,
            wm_steps, wm_alive>>

\* the components modelled last
recvVars == <<rx_in, rx_sent, rx_stream, rx_buffer, rx_position, rx_count, rx_msg,
              rx_delivered, rx_pc>>

moreVars == <<lockVars, wmVars, recvVars>>

\* the components outside the agent process's message handling
otherVars == <<serveVars, sendVars, codecVars, collVars, schedVars, moreVars>>

\* the components modelled after the three above
restVars == <<fanVars, otherVars>>

vars == <<snapVars, agentVars, watchVars, restVars>>

\* ============================================================== Snapshot
\* the event loop thread collects records; two scheduler threads upload
\* (the periodic upload job and the state-maintenance job)
LoopThread == "loop"
SchedThreads == {"sched1", "sched2"}
SnapThreads == {LoopThread} \cup SchedThreads

NoLocal == [kind |-> "none"]

\* an RLock that does not exclude the other threads
CanAcquireBroken(t) == TRUE

\* RLock.acquire succeeds when no other thread holds the lock
CanAcquire(t) == \A u \in SnapThreads \ {t} : mutex[u] = 0

MutexFree == \A t \in SnapThreads : mutex[t] = 0

\* Snapshot.get_next_line (the caller holds or can take the lock)
get_next_line == first_line + line_count

\* Snapshot.to_dict; logId is the one log of this model
to_dict == [firstLine |-> first_line,
            lastLine |-> get_next_line - 1,
            fingerprint |-> cum_hash]

SnapInit ==
    /\ initial_first_line \in 0..MaxFirstLine
    /\ first_line = initial_first_line
    /\ line_count = 0
    /\ cum_hash = hash_fun(EmptyStr)
    /\ mutex = [t \in SnapThreads |-> 0]
    /\ spc = [t \in SnapThreads |-> "idle"]
    /\ slocal = [t \in SnapThreads |-> NoLocal]
    /\ added = <<>>
    /\ since_reset = <<>>
    /\ prepped = <<>>
    /\ posts = <<>>

\* collect_record -> snapshot.add_record(record): "with self.mutex"
AddRecordEnter(r) ==
    /\ spc[LoopThread] = "idle"
    /\ Len(added) < MaxRecords
    /\ CanAcquire(LoopThread)
    /\ mutex' = [mutex EXCEPT ![LoopThread] = @ + 1]
    /\ spc' = [spc EXCEPT ![LoopThread] = "add_hash"]
    /\ slocal' = [slocal EXCEPT ![LoopThread] = [kind |-> "record", data |-> r]]
    /\ UNCHANGED <<agentVars, watchVars, restVars, first_line, line_count, cum_hash, initial_first_line,
                   added, since_reset, prepped, posts>>

\* self.cum_hash = Snapshot.hash_fun(self.cum_hash + record.data)
AddRecordHash ==
    /\ spc[LoopThread] = "add_hash"
    /\ cum_hash' = hash_fun(cum_hash \o slocal[LoopThread].data)
    /\ spc' = [spc EXCEPT ![LoopThread] = "add_count"]
    /\ UNCHANGED <<agentVars, watchVars, restVars, first_line, line_count, mutex, slocal, initial_first_line,
                   added, since_reset, prepped, posts>>

\* self.line_count = self.line_count + 1
AddRecordCount ==
    /\ spc[LoopThread] = "add_count"
    /\ line_count' = line_count + 1
    /\ spc' = [spc EXCEPT ![LoopThread] = "add_exit"]
    /\ UNCHANGED <<agentVars, watchVars, restVars, first_line, cum_hash, mutex, slocal, initial_first_line,
                   added, since_reset, prepped, posts>>

\* leaving "with self.mutex": add_record returns
AddRecordExit ==
    /\ spc[LoopThread] = "add_exit"
    /\ mutex' = [mutex EXCEPT ![LoopThread] = @ - 1]
    /\ added' = Append(added, slocal[LoopThread].data)
    /\ since_reset' = Append(since_reset, slocal[LoopThread].data)
    /\ spc' = [spc EXCEPT ![LoopThread] = "idle"]
    /\ slocal' = [slocal EXCEPT ![LoopThread] = NoLocal]
    /\ UNCHANGED <<agentVars, watchVars, restVars, first_line, line_count, cum_hash, initial_first_line,
                   prepped, posts>>

\* post_snapshot -> snapshot.upload_prep(): "with self.mutex"
UploadPrepEnter(t) ==
    /\ t \in SchedThreads
    /\ spc[t] = "idle"
    /\ Len(prepped) + Cardinality({u \in SchedThreads : spc[u] # "idle"}) < MaxUploads
    /\ CanAcquire(t)
    /\ mutex' = [mutex EXCEPT ![t] = @ + 1]
    /\ spc' = [spc EXCEPT ![t] = "prep_dict"]
    /\ UNCHANGED <<agentVars, watchVars, restVars, first_line, line_count, cum_hash, slocal, initial_first_line,
                   added, since_reset, prepped, posts>>

\* data = self.to_dict(): to_dict takes the lock again and reads the fields
UploadPrepToDict(t) ==
    /\ spc[t] = "prep_dict"
    /\ CanAcquire(t)
    /\ slocal' = [slocal EXCEPT ![t] = [kind |-> "dict", data |-> to_dict]]
    /\ spc' = [spc EXCEPT ![t] = "prep_reset"]
    /\ UNCHANGED <<agentVars, watchVars, restVars, first_line, line_count, cum_hash, mutex, initial_first_line,
                   added, since_reset, prepped, posts>>

\* a reset that keeps the running hash
resetKeepsHash ==
    /\ first_line' = get_next_line
    /\ line_count' = 0
    /\ cum_hash' = cum_hash

\* Snapshot.reset, inside its own "with self.mutex"
reset ==
    /\ first_line' = get_next_line
    /\ line_count' = 0
    /\ cum_hash' = hash_fun(EmptyStr)

\* self.reset()
UploadPrepReset(t) ==
    /\ spc[t] = "prep_reset"
    /\ CanAcquire(t)
    /\ reset
    /\ since_reset' = <<>>
    /\ spc' = [spc EXCEPT ![t] = "prep_exit"]
    /\ UNCHANGED <<agentVars, watchVars, restVars, mutex, slocal, initial_first_line, added, prepped, posts>>

\* return data, leaving "with self.mutex"
UploadPrepExit(t) ==
    /\ spc[t] = "prep_exit"
    /\ mutex' = [mutex EXCEPT ![t] = @ - 1]
    /\ prepped' = Append(prepped, slocal[t].data)
    /\ spc' = [spc EXCEPT ![t] = "post"]
    /\ UNCHANGED <<agentVars, watchVars, restVars, first_line, line_count, cum_hash, slocal, initial_first_line,
                   added, since_reset, posts>>

\* a post_snapshot that posts whatever upload_prep returned
PostsAlways(data) == TRUE
\* post_snapshot's condition: data['firstLine'] <= data['lastLine']
HasLines(data) == data.firstLine <= data.lastLine

\* post_snapshot: if data['firstLine'] <= data['lastLine']: POST /snapshot
PostSnapshot(t) ==
    /\ spc[t] = "post"
    /\ posts' = IF HasLines(slocal[t].data)
                THEN Append(posts, slocal[t].data) ELSE posts
    /\ spc' = [spc EXCEPT ![t] = "idle"]
    /\ slocal' = [slocal EXCEPT ![t] = NoLocal]
    /\ UNCHANGED <<agentVars, watchVars, restVars, first_line, line_count, cum_hash, mutex, initial_first_line,
                   added, since_reset, prepped>>

SnapNext ==
    \/ \E r \in Data : AddRecordEnter(r)
    \/ AddRecordHash
    \/ AddRecordCount
    \/ AddRecordExit
    \/ \E t \in SchedThreads : UploadPrepEnter(t)
    \/ \E t \in SchedThreads : UploadPrepToDict(t)
    \/ \E t \in SchedThreads : UploadPrepReset(t)
    \/ \E t \in SchedThreads : UploadPrepExit(t)
    \/ \E t \in SchedThreads : PostSnapshot(t)


\* ================================================================= agent
Proxies == 1..NumProxies
\* largest next_record_index a request is followed to: one past a full answer
MaxIndex == MaxBegin + MaxLines + 1
NoLead == 0

Terminal == {"CLOSED", "NOT_FOUND", "DROPPED"}

\* the statuses for which ContentRequestHandler.set_status keeps the id
KeepsDroppedInMap(status) == status \in {"NOT_FOUND", "CLOSED"}

\* ContentRequestHandler.set_status: the statuses that delete the id from the map
DeletesFromMap(status) == status \in {"NOT_FOUND", "CLOSED", "DROPPED"}

\* ContentRequestHandler.set_status(request_id, status) for a request with
\* status st that is in the map or not: what it leaves of the two
set_status(st, inmap, status) ==
    IF inmap
    THEN [status |-> status, inmap |-> ~DeletesFromMap(status)]
    ELSE [status |-> st, inmap |-> FALSE]

\* ProxyConnection.drop_content_request(request)
drop_content_request(st, inmap) == set_status(st, inmap, "DROPPED")

\* ContentRequest.got_all_requested_records
got_all_requested_records(p) == req_next[p] = end_record + 1

\* add_records without the check of begin_record
BeginUnchecked(p, begin) == TRUE

\* ContentRequestHandler.add_records: req.get_next_record_index() == begin_record
BeginMatches(p, begin) == req_next[p] = begin

\* an is_dead that looks at the list of children only
is_dead_without_lead == Len(agg_requests) = 0

\* AgentContentRequest.is_dead
is_dead == agg_lead = NoLead /\ Len(agg_requests) = 0

\* a __select_lead that drops nobody
DropsNobody(p) == FALSE

\* AgentContentRequest.__select_lead: "if req != lead" the request is dropped
DropsOther(p) == p # agg_lead

\* the sequence s without its i-th element ("del self.__requests[i]")
RemoveAt(s, i) == SubSeq(s, 1, i - 1) \o SubSeq(s, i + 1, Len(s))

\* the snapshots the backend holds for the records rs, which start at line
\* first and are cut after the lines of cuts
RECURSIVE SnapshotList(_, _, _)
SnapshotList(rs, first, cuts) ==
    IF rs = <<>> THEN <<>>
    ELSE LET ends == {k \in 1..Len(rs) : k = Len(rs) \/ k \in cuts}
             n == CHOOSE k \in ends : \A j \in ends : k <= j
         IN  << [firstLine |-> first,
                 lastLine |-> first + n - 1,
                 fingerprint |-> HashFold(SubSeq(rs, 1, n))] >>
             \o SnapshotList(SubSeq(rs, n + 1, Len(rs)), first + n,
                             {k - n : k \in {j \in cuts : j > n}})

\* the sequences over S of length lo..hi
SeqsOf(S, lo, hi) == UNION {[1..n -> S] : n \in lo..hi}

\* the agent before any proxy has connected
AgentStart ==
    /\ agent_running = TRUE
    /\ connections = <<>>
    /\ sock = [p \in Proxies |-> "unconnected"]
    /\ req_status = [p \in Proxies |-> "NONE"]
    /\ req_map = [p \in Proxies |-> FALSE]
    /\ req_content = [p \in Proxies |-> <<>>]
    /\ req_next = [p \in Proxies |-> 0]
    /\ begin_record = 0
    /\ end_record = 0
    /\ agg_requests = <<>>
    /\ agg_lead = NoLead
    /\ remaining_snapshots = <<>>
    /\ fingerprint = hash_fun(EmptyStr)
    /\ records_counter = 0
    /\ validation_finished = FALSE
    /\ job_state = "none"
    /\ posted = <<>>
    /\ wpc = "sleep"
    /\ wret = "none"
    /\ wi = 0
    /\ wseen = FALSE
    /\ faithful = [p \in Proxies |-> TRUE]
    /\ elected = {}
    /\ crash = [kind |-> "none"]
    /\ ignored = FALSE
    /\ first_found = 0

\* the agent started, the backend holding snapshots of records of values
AgentInit(values) ==
    /\ AgentStart
    /\ orig \in SeqsOf(values, 0, MaxLines)
    /\ \E first \in 0..MaxBegin : \E cuts \in SUBSET (1..(MaxLines - 1)) :
         /\ \A k \in cuts : k < Len(orig)
         /\ (orig = <<>> => first = 0)
         /\ backend_snapshots = SnapshotList(orig, first, cuts)

jobVars == <<remaining_snapshots, fingerprint, records_counter,
             validation_finished, posted>>
reqVars == <<req_status, req_map, req_content, req_next, begin_record, end_record>>
workerVars == <<wpc, wret, wi, wseen>>
aggVars == <<agg_requests, agg_lead, elected>>
netVars == <<agent_running, connections, sock, crash>>
\* what no thread of the agent writes: the backend's list, the log, the
\* collector's snapshot and the proxy's watcher
fixedVars == <<backend_snapshots, orig, snapVars, watchVars, restVars>>

\* ---- acceptor thread: agent.add_client(con)
add_client(p) ==
    /\ agent_running
    /\ sock[p] = "unconnected"
    /\ sock' = [sock EXCEPT ![p] = "open"]
    /\ connections' = Append(connections, p)
    /\ UNCHANGED <<agent_running, crash, reqVars, aggVars, jobVars, job_state,
                   workerVars, fixedVars, first_found, faithful, ignored>>

\* a __finish_validation that reports every log as forged
FinishPostsFalse(rem, fp_now, fp) == FALSE
\* _LogValidatorJob.__finish_validation(fp), given the job's fields
FinishPosts(rem, fp_now, fp) == rem = <<>> /\ fp_now = fp

\* ---- scheduler thread: LogValidator.verify_log(log)
\* get_snapshots, request_log_content (one child per registered connection),
\* the job's constructor, self.requests.append
verify_log ==
    /\ agent_running
    /\ job_state = "none"
    /\ LET first == IF backend_snapshots = <<>> THEN 0
                    ELSE backend_snapshots[1].firstLine
           last == IF backend_snapshots = <<>> THEN 0
                   ELSE backend_snapshots[Len(backend_snapshots)].lastLine
           members == {connections[i] : i \in 1..Len(connections)}
       IN  /\ begin_record' = first
           /\ end_record' = last
           /\ req_status' = [p \in Proxies |->
                               IF p \in members THEN "PENDING" ELSE req_status[p]]
           /\ req_map' = [p \in Proxies |-> p \in members]
           /\ req_next' = [p \in Proxies |-> IF p \in members THEN first ELSE req_next[p]]
           /\ agg_requests' = connections
    /\ remaining_snapshots' = backend_snapshots
    /\ validation_finished' = (backend_snapshots = <<>>)
    /\ posted' = IF backend_snapshots = <<>>
                 THEN Append(posted, FinishPosts(<<>>, fingerprint, hash_fun(EmptyStr)))
                 ELSE posted
    /\ job_state' = "queued"
    /\ UNCHANGED <<netVars, req_content, agg_lead, elected, fingerprint,
                   records_counter, workerVars, fixedVars, first_found, faithful, ignored>>

\* ---- scheduler thread: the same verify_log with request_log_content's
\* "for con in self.__connections" taken one iteration at a time. The list is
\* shared with the acceptor (append) and the event loop (remove) and no lock
\* guards it; a list iterator holds an index and yields list[index] while
\* index < len(list).
\* get_snapshots, __request_content, the iterator is created
RequestBegin ==
    /\ agent_running
    /\ job_state = "none"
    /\ fan_pc = "idle"
    /\ begin_record' = IF backend_snapshots = <<>> THEN 0
                       ELSE backend_snapshots[1].firstLine
    /\ end_record' = IF backend_snapshots = <<>> THEN 0
                     ELSE backend_snapshots[Len(backend_snapshots)].lastLine
    /\ fan_pc' = "iter"
    /\ fan_idx' = 0
    /\ fan_out' = <<>>
    /\ fan_began' = {connections[i] : i \in 1..Len(connections)}
    /\ UNCHANGED <<netVars, req_status, req_map, req_content, req_next, aggVars,
                   jobVars, job_state, workerVars, backend_snapshots, orig,
                   snapVars, watchVars, otherVars, first_found, faithful, ignored>>

\* one iteration: con.request_content(...) creates the child, requests.append
RequestStep ==
    /\ agent_running
    /\ fan_pc = "iter"
    /\ fan_idx < Len(connections)
    /\ LET p == connections[fan_idx + 1]
       IN  /\ req_status' = [req_status EXCEPT ![p] = "PENDING"]
           /\ req_map' = [req_map EXCEPT ![p] = TRUE]
           /\ req_next' = [req_next EXCEPT ![p] = begin_record]
           /\ fan_out' = Append(fan_out, p)
    /\ fan_idx' = fan_idx + 1
    /\ UNCHANGED <<netVars, req_content, begin_record, end_record, aggVars,
                   jobVars, job_state, workerVars, backend_snapshots, orig,
                   snapVars, watchVars, otherVars, fan_pc, fan_began, first_found,
                   faithful, ignored>>

\* the iterator is exhausted: AgentContentRequest(requests), the job's
\* constructor, self.requests.append
RequestReturn ==
    /\ agent_running
    /\ fan_pc = "iter"
    /\ fan_idx >= Len(connections)
    /\ agg_requests' = fan_out
    /\ remaining_snapshots' = backend_snapshots
    /\ validation_finished' = (backend_snapshots = <<>>)
    /\ posted' = IF backend_snapshots = <<>>
                 THEN Append(posted, FinishPosts(<<>>, fingerprint, hash_fun(EmptyStr)))
                 ELSE posted
    /\ job_state' = "queued"
    /\ fan_pc' = "done"
    /\ UNCHANGED <<netVars, reqVars, agg_lead, elected, fingerprint,
                   records_counter, workerVars, backend_snapshots, orig,
                   snapVars, watchVars, otherVars, fan_idx, fan_out, fan_began,
                   first_found, faithful, ignored>>

\* ---- event loop thread: con.receive_messages() handles one message
\* the agent leaves through os._exit(1): every exception but ConnectionError
\* reaches handle_clients' outer "except Exception". The process ends: its
\* sockets are closed and its threads, the job and the aggregate are no more.
\* What was posted stays with the backend, and the children are left as the
\* handler that raised left them.
Exits(kind, p) ==
    /\ agent_running' = FALSE
    /\ crash' = [kind |-> kind, p |-> p]
    /\ connections' = <<>>
    /\ sock' = [q \in Proxies |-> IF sock[q] = "unconnected" THEN "unconnected" ELSE "closed"]
    /\ agg_requests' = <<>>
    /\ agg_lead' = NoLead
    /\ elected' = {}
    /\ remaining_snapshots' = <<>>
    /\ fingerprint' = hash_fun(EmptyStr)
    /\ records_counter' = 0
    /\ validation_finished' = FALSE
    /\ job_state' = IF job_state = "queued" THEN "killed" ELSE job_state
    /\ wpc' = "sleep"
    /\ wret' = "none"
    /\ wi' = 0
    /\ wseen' = FALSE
    /\ faithful' = [q \in Proxies |-> TRUE]
    /\ ignored' = FALSE
    /\ first_found' = 0
    /\ UNCHANGED <<reqVars, posted, fixedVars>>

Serving(p) ==
    /\ agent_running
    /\ sock[p] = "open"
    /\ \E i \in 1..Len(connections) : connections[i] = p

\* LogContentStatus{request_id, status} -> ContentRequestHandler.set_status
StatusReceived(p, status) ==
    /\ Serving(p)
    /\ LET new == set_status(req_status[p], req_map[p], status)
       IN  /\ req_status' = [req_status EXCEPT ![p] = new.status]
           /\ req_map' = [req_map EXCEPT ![p] = new.inmap]
    /\ ignored' = (ignored \/ (~req_map[p] /\ req_status[p] = "DROPPED"))
    /\ UNCHANGED <<netVars, req_content, req_next, begin_record, end_record,
                   aggVars, jobVars, job_state, workerVars, fixedVars, faithful>>

ReceiveStatus(p, status) ==
    /\ StatusReceived(p, status)
    /\ UNCHANGED first_found

\* the same, with the history of the first FOUND reply kept
ReceiveStatusTracked(p, status) ==
    /\ StatusReceived(p, status)
    /\ first_found' =
          IF set_status(req_status[p], req_map[p], status).status = "RECEIVING"
             /\ first_found = 0
          THEN p ELSE first_found

\* the records of a batch with the absolute indices its begin_record gives them
Indexed(begin, records) ==
    [i \in 1..Len(records) |-> [ind |-> begin + i - 1, data |-> records[i]]]

\* whether the records are those hashed originally at these lines
Original(begin, records) ==
    \A i \in 1..Len(records) :
        LET k == begin + i - 1 - begin_record + 1
        IN  k \in 1..Len(orig) /\ orig[k] = records[i]

\* ContentRequestHandler.add_records raises ValueError: "got more records
\* than requested" or "missing/duplicate records"
AddRecordsRaises(p, begin) ==
    got_all_requested_records(p) \/ ~BeginMatches(p, begin)

\* LogContentData{request_id, begin_record, end_record, records} that passed
\* from_raw -> ContentRequestHandler.add_records, which appends the records
ReceiveData(p, begin, records) ==
    /\ Serving(p)
    /\ req_map[p]
    /\ ~AddRecordsRaises(p, begin)
    /\ req_next[p] + Len(records) <= MaxIndex
    /\ req_content' = [req_content EXCEPT ![p] = @ \o Indexed(begin, records)]
    /\ req_next' = [req_next EXCEPT ![p] = @ + Len(records)]
    /\ faithful' = [faithful EXCEPT ![p] = @ /\ Original(begin, records)]
    /\ UNCHANGED <<netVars, ignored, req_status, req_map, begin_record, end_record,
                   aggVars, jobVars, job_state, workerVars, fixedVars, first_found>>

\* LogContentData for an id that is not in the map: add_records returns
ReceiveDataUnknown(p) ==
    /\ Serving(p)
    /\ ~req_map[p]
    /\ ignored' = (ignored \/ req_status[p] = "DROPPED")
    /\ UNCHANGED <<netVars, reqVars, aggVars, jobVars, job_state, workerVars,
                   fixedVars, first_found, faithful>>

\* LogContentData that add_records refuses: the ValueError ends the agent
ReceiveDataRefused(p, begin) ==
    /\ Serving(p)
    /\ req_map[p]
    /\ AddRecordsRaises(p, begin)
    /\ Exits("add_records", p)

\* a message the deserializer refuses: a type code it does not handle
\* ("bad_type"), a LogContentData whose lengths from_raw refuses ("bad_lengths");
\* either is a ValueError
ReceiveViolation(p, kind) ==
    /\ Serving(p)
    /\ kind \in {"bad_type", "bad_lengths"}
    /\ Exits("deserialize", p)

\* recv returns 0 bytes: ConnectionError, self.__connections.remove(con)
ConnectionLost(p) ==
    /\ Serving(p)
    /\ sock' = [sock EXCEPT ![p] = "closed"]
    /\ connections' = SelectSeq(connections, LAMBDA q : q # p)
    /\ UNCHANGED <<agent_running, crash, reqVars, aggVars, jobVars, job_state,
                   workerVars, fixedVars, first_found, faithful, ignored>>

\* ---- validator worker thread: LogValidator.__worker_thread
\* Steps of the worker that touch only what no other thread touches are taken
\* together with the step before them; each read or write of a request's
\* status, of its queue and of self.requests is a step of its own.

\* get_lead: "if self.__lead is None: self.__try_resolve_lead()", then go on at to
GetLead(to) ==
    IF agg_lead = NoLead
    THEN wpc' = "scan" /\ wret' = to /\ wi' = Len(agg_requests)
    ELSE wpc' = to /\ UNCHANGED <<wret, wi>>

\* "new_requests = []; for job in self.requests": the job, when it is queued;
\* then job.do_work(): lead = self.job.get_lead()
WorkerBegin ==
    /\ agent_running
    /\ wpc = "sleep"
    /\ IF job_state = "queued"
       THEN wseen' = TRUE /\ GetLead("pop")
       ELSE wseen' = FALSE /\ wpc' = "assign" /\ UNCHANGED <<wret, wi>>
    /\ UNCHANGED <<netVars, reqVars, aggVars, jobVars, job_state,
                   fixedVars, first_found, faithful, ignored>>

\* __try_resolve_lead: one turn of "for i in reversed(range(len(requests)))"
ResolveScan ==
    /\ agent_running
    /\ wpc = "scan"
    /\ IF wi = 0
       THEN /\ wpc' = wret
            /\ UNCHANGED <<wi, agg_requests, agg_lead, elected>>
       ELSE LET req == agg_requests[wi]
                st == req_status[req]
            IN  IF st \in {"RECEIVING", "CLOSED"}
                THEN \* __select_lead(req): self.__lead = lead
                     /\ agg_lead' = req
                     /\ elected' = elected \cup {req}
                     /\ wpc' = "select"
                     /\ wi' = 1
                     /\ UNCHANGED agg_requests
                ELSE IF st \in {"NOT_FOUND", "DROPPED"}
                THEN /\ agg_requests' = RemoveAt(agg_requests, wi)
                     /\ wi' = wi - 1
                     /\ UNCHANGED <<wpc, agg_lead, elected>>
                ELSE /\ wi' = wi - 1
                     /\ UNCHANGED <<wpc, agg_requests, agg_lead, elected>>
    /\ UNCHANGED <<netVars, reqVars, jobVars, job_state, wret, wseen,
                   fixedVars, first_found, faithful, ignored>>

\* __select_lead: one turn of "for (con, req) in self.__requests", then clear()
\* con.drop_content_request(req) is set_status(id, DROPPED) of con's handler
SelectLead ==
    /\ agent_running
    /\ wpc = "select"
    /\ IF wi > Len(agg_requests)
       THEN /\ agg_requests' = <<>>
            /\ wpc' = wret
            /\ UNCHANGED <<wi, req_status, req_map>>
       ELSE LET req == agg_requests[wi]
            IN  /\ wi' = wi + 1
                /\ IF DropsOther(req)
                   THEN LET new == drop_content_request(req_status[req], req_map[req])
                        IN  /\ req_status' = [req_status EXCEPT ![req] = new.status]
                            /\ req_map' = [req_map EXCEPT ![req] = new.inmap]
                   ELSE UNCHANGED <<req_status, req_map>>
                /\ UNCHANGED <<wpc, agg_requests>>
    /\ UNCHANGED <<netVars, req_content, req_next, begin_record, end_record,
                   agg_lead, elected, jobVars, job_state, wret, wseen,
                   fixedVars, first_found, faithful, ignored>>

\* a __finish_validation without its guard
finish_unguarded == FALSE
\* __finish_validation: "if not self.validation_finished" does not hold
already_finished == validation_finished

\* _LogValidatorJob.__handle_new_record(new_record)
handle_new_record(new_record) ==
    IF validation_finished
    THEN UNCHANGED jobVars
    ELSE LET next_snapshot == remaining_snapshots[1]
             counter == records_counter + 1
             fp == hash_fun(fingerprint \o new_record)
             popped == next_snapshot.lastLine < counter
             rem == IF popped THEN Tail(remaining_snapshots) ELSE remaining_snapshots
             fin == popped /\ (fp # next_snapshot.fingerprint \/ rem = <<>>)
         IN  /\ records_counter' = counter
             /\ remaining_snapshots' = rem
             /\ fingerprint' = IF popped THEN hash_fun(EmptyStr) ELSE fp
             /\ validation_finished' = fin
             /\ posted' = IF fin
                          THEN Append(posted, FinishPosts(rem, fp, next_snapshot.fingerprint))
                          ELSE posted

\* work_in_progress, up to its read of the lead's status:
\* "if self.job.is_dead(): self.__finish_validation(''); return False", where ''
\* is no digest and the posted isCorrect is False; then lead = self.job.get_lead()
WorkInProgressEnter ==
    IF is_dead
    THEN /\ wpc' = "assign"
         /\ UNCHANGED <<wret, wi>>
         /\ IF already_finished
            THEN UNCHANGED jobVars
            ELSE /\ validation_finished' = TRUE
                 /\ posted' = Append(posted,
                       FinishPosts(remaining_snapshots, fingerprint, EmptyStr))
                 /\ UNCHANGED <<remaining_snapshots, fingerprint, records_counter>>
    ELSE /\ GetLead("status")
         /\ UNCHANGED jobVars

\* do_work: one turn of "while new_record := lead.pop_record()"; the loop ends
\* on None (an empty queue) and on a record that is falsy, the empty str
DoWorkPop ==
    /\ agent_running
    /\ wpc = "pop"
    /\ IF agg_lead = NoLead \/ req_content[agg_lead] = <<>>
       THEN /\ WorkInProgressEnter
            /\ UNCHANGED req_content
       ELSE LET new_record == Head(req_content[agg_lead]).data
            IN  /\ req_content' = [req_content EXCEPT ![agg_lead] = Tail(@)]
                /\ IF new_record = EmptyStr
                   THEN WorkInProgressEnter
                   ELSE /\ handle_new_record(new_record)
                        /\ UNCHANGED <<wpc, wret, wi>>
    /\ UNCHANGED <<netVars, req_status, req_map, req_next, begin_record, end_record,
                   aggVars, job_state, wseen, fixedVars, first_found, faithful, ignored>>

\* what "self.requests = new_requests" leaves of the queue: a job the loop
\* kept stays, one it did not keep is dropped, one that verify_log appended
\* after the loop had ended is lost
Assigned(keep) ==
    IF job_state # "queued" THEN job_state
    ELSE IF ~wseen THEN "lost"
    ELSE IF keep THEN "queued"
    ELSE "dropped"

\* work_in_progress: return not lead or lead.get_status() in (PENDING, RECEIVING)
\* then "if job.work_in_progress(): new_requests.append(job)" and
\* "self.requests = new_requests"
WorkInProgressStatus ==
    /\ agent_running
    /\ wpc = "status"
    /\ job_state' = Assigned(agg_lead = NoLead
                               \/ req_status[agg_lead] \in {"PENDING", "RECEIVING"})
    /\ wpc' = "sleep"
    /\ UNCHANGED <<netVars, reqVars, aggVars, jobVars, wret, wi, wseen,
                   fixedVars, first_found, faithful, ignored>>

\* "self.requests = new_requests" after a loop that kept nothing
WorkerAssign ==
    /\ agent_running
    /\ wpc = "assign"
    /\ job_state' = Assigned(FALSE)
    /\ wpc' = "sleep"
    /\ UNCHANGED <<netVars, reqVars, aggVars, jobVars, wret, wi, wseen,
                   fixedVars, first_found, faithful, ignored>>

\* the steps of the agent's threads, with the proxies of ps connecting and
\* sending records of values
AgentNext(ps, values) ==
    \/ \E p \in ps : add_client(p)
    \/ verify_log
    \/ \E p \in ps : \E status \in {"RECEIVING", "NOT_FOUND", "CLOSED"} :
          ReceiveStatus(p, status)
    \/ \E p \in ps : \E begin \in 0..MaxIndex :
          \E records \in SeqsOf(values, 1, MaxBatch) : ReceiveData(p, begin, records)
    \/ \E p \in ps : ReceiveDataUnknown(p)
    \/ \E p \in ps : \E begin \in 0..MaxIndex : ReceiveDataRefused(p, begin)
    \/ \E p \in ps : \E kind \in {"bad_type", "bad_lengths"} :
          ReceiveViolation(p, kind)
    \/ \E p \in ps : ConnectionLost(p)
    \/ WorkerBegin
    \/ ResolveScan
    \/ SelectLead
    \/ DoWorkPop
    \/ WorkInProgressStatus
    \/ WorkerAssign

\* ================================================================= watcher
\* the characters of the watched file: a letter, the line terminator
\* os.linesep, and a form feed
LF == "LF"
FF == "FF"
FileChars == {"a", LF, FF}

\* the characters at which str.splitlines ends a line: "\n", and also
\* "\v", "\f", "\x1c", "\x1d", "\x1e", "\x85", U+2028 and U+2029
LineBoundaries == {LF, FF}

\* the characters at which a line would end if only os.linesep ended lines
LinesepOnly == {LF}

\* the characters str.rstrip removes
Whitespace == {LF, FF}

\* data.splitlines(True): the lines of data with their line ends kept
RECURSIVE splitlines(_)
splitlines(data) ==
    IF data = <<>> THEN <<>>
    ELSE LET ends == {i \in 1..Len(data) : data[i] \in LineBoundaries}
         IN  IF ends = {} THEN <<data>>
             ELSE LET n == CHOOSE i \in ends : \A j \in ends : i <= j
                  IN  <<SubSeq(data, 1, n)>> \o splitlines(SubSeq(data, n + 1, Len(data)))

\* line.endswith(os.linesep)
endswith_linesep(line) == line # <<>> /\ line[Len(line)] = LF

\* line.rstrip()
RECURSIVE rstrip(_)
rstrip(line) ==
    IF line # <<>> /\ line[Len(line)] \in Whitespace
    THEN rstrip(SubSeq(line, 1, Len(line) - 1))
    ELSE line

\* read_records: "for line in lines", with the fields as the loop leaves them,
\* the records it passed to on_record_added, and whether it raised
\* ValueError('__prev_line not empty')
RECURSIVE ReadLoop(_, _, _, _)
ReadLoop(lines, prev, skip, out) ==
    IF lines = <<>>
    THEN [prev_line |-> prev, to_skip |-> skip, out |-> out, raised |-> FALSE]
    ELSE LET line == Head(lines)
         IN  IF ~endswith_linesep(line)
             THEN IF prev # <<>>
                  THEN [prev_line |-> prev, to_skip |-> skip, out |-> out, raised |-> TRUE]
                  ELSE ReadLoop(Tail(lines), line, skip, out)
             ELSE IF skip > 0
                  THEN ReadLoop(Tail(lines), prev, skip - 1, out)
                  ELSE ReadLoop(Tail(lines), prev, skip, Append(out, rstrip(line)))

\* LogFileWatcher.read_records with __to_skip = skip, on what the stream has
\* not read yet
read_records(skip) ==
    LET data == SubSeq(file_content, stream_pos + 1, Len(file_content))
        lines0 == splitlines(data)
        lines == IF prev_line # <<>>
                 THEN <<prev_line \o Head(lines0)>> \o Tail(lines0)
                 ELSE lines0
    IN  IF data = <<>>
        THEN [prev_line |-> prev_line, to_skip |-> skip, out |-> <<>>, raised |-> FALSE]
        ELSE ReadLoop(lines, <<>>, skip, <<>>)

\* RecordSender.on_record_added: the AddRecord messages of the records
AddRecords(out) == [i \in 1..Len(out) |-> [type |-> "AddRecord", data |-> out[i]]]

\* the effect of a read_records call: the stream is at the end of the file,
\* the records are sent; a ValueError reaches "except Exception" of the main
\* loop or of listen_watches, and os._exit(1) ends the proxy
ReadRecords(skip) ==
    LET res == read_records(skip)
    IN  /\ stream_pos' = Len(file_content)
        /\ prev_line' = res.prev_line
        /\ to_skip' = res.to_skip
        /\ sent' = sent \o AddRecords(res.out)
        /\ proxy_running' = ~res.raised

\* the watcher before begin_watch, the file holding some characters
WatchInit ==
    /\ file_content \in SeqsOf(FileChars, 0, MaxWrite)
    /\ stream_pos = 0
    /\ prev_line = <<>>
    /\ to_skip = 0
    /\ initialized = FALSE
    /\ mpc = "start"
    /\ modify_events = 0
    /\ sent = <<>>
    /\ start_line = 0
    /\ proxy_running = TRUE

\* a process appends to the log file; inotify queues IN_MODIFY once the file
\* is watched
AppendToFile(cs) ==
    /\ Len(file_content) + Len(cs) <= MaxFileLen
    /\ file_content' = file_content \o cs
    /\ modify_events' = IF mpc # "start" /\ modify_events < MaxEvents
                        THEN modify_events + 1 ELSE modify_events
    /\ UNCHANGED <<stream_pos, prev_line, to_skip, initialized, mpc, sent,
                   start_line, proxy_running, snapVars, agentVars, restVars>>

\* main thread: begin_watch(path) -> FileEvent.my_init -> LogFileWatcher.setup,
\* whose request_initialize sends GetLogPosition; then add_watch
setup ==
    /\ proxy_running
    /\ mpc = "start"
    /\ stream_pos' = 0
    /\ prev_line' = <<>>
    /\ initialized' = FALSE
    /\ to_skip' = 0
    /\ sent' = Append(sent, [type |-> "GetLogPosition"])
    /\ mpc' = "waiting"
    /\ UNCHANGED <<file_content, modify_events, start_line, proxy_running,
                   snapVars, agentVars, restVars>>

\* main thread: LogPositionResponse{position} -> initialize_watch ->
\* initialize(start_line): self.__to_skip = start_line; self.read_records()
initialize(position) ==
    /\ proxy_running
    /\ mpc = "waiting"
    /\ start_line' = position
    /\ ReadRecords(position)
    /\ mpc' = "read"
    /\ UNCHANGED <<file_content, initialized, modify_events, snapVars, agentVars, restVars>>

\* initialize: self.__initialized = True
initialize_done ==
    /\ proxy_running
    /\ mpc = "read"
    /\ initialized' = TRUE
    /\ mpc' = "serving"
    /\ UNCHANGED <<file_content, stream_pos, prev_line, to_skip, modify_events,
                   sent, start_line, proxy_running, snapVars, agentVars, restVars>>

\* notifier thread: FileEvent.process_IN_MODIFY
process_IN_MODIFY ==
    /\ proxy_running
    /\ modify_events > 0
    /\ modify_events' = modify_events - 1
    /\ IF ~initialized
       THEN UNCHANGED <<stream_pos, prev_line, to_skip, sent, proxy_running>>
       ELSE ReadRecords(to_skip)
    /\ UNCHANGED <<file_content, initialized, mpc, start_line, snapVars, agentVars, restVars>>

WatchNext ==
    \/ \E cs \in SeqsOf(FileChars, 1, MaxWrite) : AppendToFile(cs)
    \/ setup
    \/ \E position \in 0..MaxPosition : initialize(position)
    \/ initialize_done
    \/ process_IN_MODIFY

\* ========================================== proxy: the content server
\* largest record index a GetLogContent asks for
MaxReqLine == 3

\* lines of a file that is streamed in several batches, and the largest
\* record index asked of it
MaxStreamLines == 42

\* Maximum record count for one LogContentData message
BATCH_SIZE == 20

\* iterating a file opened in text mode: lines end at "\n" only and keep
\* it; what follows the last "\n" is a line too
RECURSIVE readlines(_)
readlines(data) ==
    IF data = <<>> THEN <<>>
    ELSE LET ends == {i \in 1..Len(data) : data[i] \in LinesepOnly}
         IN  IF ends = {} THEN <<data>>
             ELSE LET n == CHOOSE i \in ends : \A j \in ends : i <= j
                  IN  <<SubSeq(data, 1, n)>> \o readlines(SubSeq(data, n + 1, Len(data)))

LogContentStatus(status) == [type |-> "LogContentStatus", status |-> status]

\* __send_data: the batch with its records stripped
LogContentData(begin, end, records) ==
    [type |-> "LogContentData", begin_record |-> begin, end_record |-> end,
     records |-> [i \in 1..Len(records) |-> rstrip(records[i])]]

\* a batch as long as what is left of the request
Unlimited(want) == want
\* min(end_record - record + 1, BATCH_SIZE)
BatchLimit(want) == IF want < BATCH_SIZE THEN want ELSE BATCH_SIZE

\* handle_log_content_request up to the first response
HandleContentRequest ==
    /\ cm_pc = "idle"
    /\ IF ~cm_watched
       THEN /\ cm_sent' = Append(cm_sent, LogContentStatus("NOT_FOUND"))
            /\ cm_pc' = "done"
       ELSE /\ cm_sent' = Append(cm_sent, LogContentStatus("FOUND_AND_BEGIN_SEND"))
            /\ cm_pc' = "open"
    /\ UNCHANGED <<snapVars, agentVars, watchVars, fanVars, moreVars, sendVars, codecVars, collVars,
                   schedVars,
                   cm_watched, cm_file,
                   cm_begin, cm_end, cm_record, cm_stream>>

\* LogStream(log_name, begin_record): open, then next(file) begin_record
\* times. next raises StopIteration at the end of the file; nothing catches
\* it before the main loop's "except Exception", where os._exit(1) ends the
\* proxy.
OpenLogStream ==
    /\ cm_pc = "open"
    /\ LET lines == readlines(cm_file)
       IN  IF Len(lines) < cm_begin
           THEN /\ cm_pc' = "exited"
                /\ UNCHANGED <<cm_stream, cm_record>>
           ELSE /\ cm_stream' = SubSeq(lines, cm_begin + 1, Len(lines))
                /\ cm_record' = cm_begin
                /\ cm_pc' = "loop"
    /\ UNCHANGED <<snapVars, agentVars, watchVars, fanVars, moreVars, sendVars, codecVars, collVars,
                   schedVars,
                   cm_watched, cm_file,
                   cm_begin, cm_end, cm_sent>>

\* one iteration of "while record <= end_record" that read records
SendBatch ==
    /\ cm_pc = "loop"
    /\ cm_record <= cm_end
    /\ cm_stream # <<>>
    /\ LET want == cm_end - cm_record + 1
           to_send == BatchLimit(want)
           rec_count == IF Len(cm_stream) < to_send THEN Len(cm_stream) ELSE to_send
           records == SubSeq(cm_stream, 1, rec_count)
       IN  /\ cm_sent' = Append(cm_sent,
                 LogContentData(cm_record, cm_record + rec_count - 1, records))
           /\ cm_record' = cm_record + rec_count
           /\ cm_stream' = SubSeq(cm_stream, rec_count + 1, Len(cm_stream))
    /\ UNCHANGED <<snapVars, agentVars, watchVars, fanVars, moreVars, sendVars, codecVars, collVars,
                   schedVars,
                   cm_pc, cm_watched,
                   cm_file, cm_begin, cm_end>>

\* the loop ends (record > end_record, or a read returned nothing): END_SEND
SendEnd ==
    /\ cm_pc = "loop"
    /\ cm_record > cm_end \/ cm_stream = <<>>
    /\ cm_sent' = Append(cm_sent, LogContentStatus("END_SEND"))
    /\ cm_pc' = "done"
    /\ UNCHANGED <<snapVars, agentVars, watchVars, fanVars, moreVars, sendVars, codecVars, collVars,
                   schedVars,
                   cm_watched, cm_file,
                   cm_begin, cm_end, cm_record, cm_stream>>

\* ======================================= NetworkConnection.send / write
\* the proxy's main thread (responses) and notifier thread (AddRecord)
SendThreads == {"main", "notifier"}
\* send calls of one thread
MaxSends == 2
\* bytes of one serialized message
MsgLen == 2

\* the serialized message k of thread t: its bytes are its own
Buffer(t, k) == [i \in 1..MsgLen |-> [t |-> t, k |-> k, i |-> i]]

RECURSIVE Flatten(_)
Flatten(q) == IF q = <<>> THEN <<>> ELSE Head(q) \o Flatten(Tail(q))

\* a send without the mutex
CanAcquireSendBroken == TRUE
\* a Lock that nobody holds
CanAcquireSend == send_mutex = "free"

SendInit ==
    /\ send_mutex = "free"
    /\ send_queue = <<>>
    /\ wire = <<>>
    /\ acquired = <<>>
    /\ send_pc = [t \in SendThreads |-> "idle"]
    /\ send_local = [t \in SendThreads |-> <<>>]
    /\ send_count = [t \in SendThreads |-> 0]

\* NetworkConnection.send: message.serialize(), self.__send_mutex.acquire()
SendAcquire(t) ==
    /\ send_pc[t] = "idle"
    /\ send_count[t] < MaxSends
    /\ CanAcquireSend
    /\ send_mutex' = t
    /\ send_count' = [send_count EXCEPT ![t] = @ + 1]
    /\ send_local' = [send_local EXCEPT ![t] = Buffer(t, send_count[t] + 1)]
    /\ acquired' = Append(acquired, [t |-> t, k |-> send_count[t] + 1])
    /\ send_pc' = [send_pc EXCEPT ![t] = "append"]
    /\ UNCHANGED <<snapVars, agentVars, watchVars, fanVars, moreVars, serveVars, codecVars, collVars,
                   schedVars,
                   send_queue, wire>>

\* BufferingSocket.write: self.__send_queue.append(content)
WriteAppend(t) ==
    /\ send_pc[t] = "append"
    /\ send_queue' = Append(send_queue, send_local[t])
    /\ send_local' = [send_local EXCEPT ![t] = <<>>]
    /\ send_pc' = [send_pc EXCEPT ![t] = "loop"]
    /\ UNCHANGED <<snapVars, agentVars, watchVars, fanVars, moreVars, serveVars, codecVars, collVars,
                   schedVars,
                   send_mutex, wire, acquired, send_count>>

\* "while any(self.__send_queue)": popleft and self.send(to_send), which
\* hands the socket the first nsent bytes (0 on EAGAIN / EWOULDBLOCK)
WriteSend(t, nsent) ==
    /\ send_pc[t] = "loop"
    /\ send_queue # <<>>
    /\ LET to_send == Head(send_queue)
       IN  /\ nsent <= Len(to_send)
           /\ wire' = wire \o SubSeq(to_send, 1, nsent)
           /\ send_queue' = Tail(send_queue)
           /\ IF nsent < Len(to_send)
              THEN /\ send_local' = [send_local EXCEPT
                                       ![t] = SubSeq(to_send, nsent + 1, Len(to_send))]
                   /\ send_pc' = [send_pc EXCEPT ![t] = "requeue"]
              ELSE UNCHANGED <<send_local, send_pc>>
    /\ UNCHANGED <<snapVars, agentVars, watchVars, fanVars, moreVars, serveVars, codecVars, collVars,
                   schedVars,
                   send_mutex, acquired, send_count>>

\* self.__send_queue.appendleft(to_send[sent:]); break
WriteRequeue(t) ==
    /\ send_pc[t] = "requeue"
    /\ send_queue' = <<send_local[t]>> \o send_queue
    /\ send_local' = [send_local EXCEPT ![t] = <<>>]
    /\ send_pc' = [send_pc EXCEPT ![t] = "release"]
    /\ UNCHANGED <<snapVars, agentVars, watchVars, fanVars, moreVars, serveVars, codecVars, collVars,
                   schedVars,
                   send_mutex, wire, acquired, send_count>>

\* the queue is empty: write returns
WriteReturn(t) ==
    /\ send_pc[t] = "loop"
    /\ send_queue = <<>>
    /\ send_pc' = [send_pc EXCEPT ![t] = "release"]
    /\ UNCHANGED <<snapVars, agentVars, watchVars, fanVars, moreVars, serveVars, codecVars, collVars,
                   schedVars,
                   send_mutex, send_queue, wire, acquired, send_local, send_count>>

\* finally: self.__send_mutex.release()
SendRelease(t) ==
    /\ send_pc[t] = "release"
    /\ send_mutex' = "free"
    /\ send_pc' = [send_pc EXCEPT ![t] = "idle"]
    /\ UNCHANGED <<snapVars, agentVars, watchVars, fanVars, moreVars, serveVars, codecVars, collVars,
                   schedVars,
                   send_queue, wire, acquired, send_local, send_count>>

\* ============================================ framing (networking.py)
\* largest request id, record index, position and timestamp of a message
MaxField == 1

\* int.to_bytes(n, k, byteorder='little')
to_bytes_little(n, k) == [i \in 1..k |-> (n \div (256 ^ (i - 1))) % 256]
\* int.to_bytes(n, k, byteorder='big', signed=False)
to_bytes(n, k) == [i \in 1..k |-> (n \div (256 ^ (k - i))) % 256]

\* int.from_bytes(bs, byteorder='big', signed=False)
RECURSIVE from_bytes(_)
from_bytes(bs) ==
    IF bs = <<>> THEN 0
    ELSE 256 * from_bytes(SubSeq(bs, 1, Len(bs) - 1)) + bs[Len(bs)]

\* SerializeToString of the schema library: a scalar field is written
\* unless it has its default value; a sub-message that was set and every
\* element of a repeated field are written; one payload byte stands for
\* one written field
Scalar(f, v, default) == IF v = default THEN <<>> ELSE <<[f |-> f, v |-> v]>>
Repeated(f, vs) == [i \in 1..Len(vs) |-> [f |-> f, v |-> vs[i]]]

\* ParseFromString: the value of field f, its default when it was not written
Parsed(contents, f, default) ==
    LET at == {i \in 1..Len(contents) : contents[i].f = f}
    IN  IF at = {} THEN default
        ELSE contents[CHOOSE i \in at : \A j \in at : j <= i].v
ParsedRepeated(contents, f) ==
    LET es == SelectSeq(contents, LAMBDA e : e.f = f)
    IN  [i \in 1..Len(es) |-> es[i].v]

\* get_contents of the six message classes
get_contents(m) ==
    CASE m.type = 1 -> <<[f |-> "log", v |-> m.log_name]>>
                       \o <<[f |-> "timestamp", v |-> m.timestamp]>>
                       \o Scalar("message", m.data, EmptyStr)
      [] m.type = 2 -> Scalar("name", m.log_name, EmptyStr)
      [] m.type = 3 -> <<[f |-> "log", v |-> m.log_name]>>
                       \o Scalar("position", m.position, 0)
      [] m.type = 4 -> <<[f |-> "log", v |-> m.log_name]>>
                       \o Scalar("request_id", m.request_id, 0)
                       \o Scalar("begin_record", m.begin_record, 0)
                       \o Scalar("end_record", m.end_record, 0)
      [] m.type = 5 -> Scalar("request_id", m.request_id, 0)
                       \o Scalar("status", m.status, 0)
      [] m.type = 6 -> Scalar("request_id", m.request_id, 0)
                       \o Scalar("begin_record", m.begin_record, 0)
                       \o Scalar("end_record", m.end_record, 0)
                       \o Repeated("contents", m.contents)

\* NetworkMessage.serialize: type byte, 4-byte length, contents
serialize(m) ==
    to_bytes(m.type, 1) \o to_bytes(Len(get_contents(m)), 4) \o get_contents(m)

DecodeError == [type |-> "ValueError"]

\* from_raw of the class the deserializers choose for the type code
from_raw(type, c) ==
    CASE type = 1 -> [type |-> 1, log_name |-> Parsed(c, "log", EmptyStr),
                      data |-> Parsed(c, "message", EmptyStr),
                      timestamp |-> Parsed(c, "timestamp", 0)]
      [] type = 2 -> [type |-> 2, log_name |-> Parsed(c, "name", EmptyStr)]
      [] type = 3 -> [type |-> 3, log_name |-> Parsed(c, "log", EmptyStr),
                      position |-> Parsed(c, "position", 0)]
      [] type = 4 -> [type |-> 4, log_name |-> Parsed(c, "log", EmptyStr),
                      request_id |-> Parsed(c, "request_id", 0),
                      begin_record |-> Parsed(c, "begin_record", 0),
                      end_record |-> Parsed(c, "end_record", 0)]
      [] type = 5 -> [type |-> 5, request_id |-> Parsed(c, "request_id", 0),
                      status |-> Parsed(c, "status", 0)]
      [] type = 6 ->
            LET begin == Parsed(c, "begin_record", 0)
                end == Parsed(c, "end_record", 0)
                records == ParsedRepeated(c, "contents")
            IN  IF begin > end \/ end - begin + 1 # Len(records)
                THEN DecodeError
                ELSE [type |-> 6, request_id |-> Parsed(c, "request_id", 0),
                      begin_record |-> begin, end_record |-> end,
                      contents |-> records]
      [] OTHER -> DecodeError

\* NetworkConnection.receive: the meta of the 5-byte header, then
\* RawNetworkMessage over the read buffer, which is at least as long as the
\* body and holds older bytes behind it; get_contents cuts it at meta.length
receive(header, buffer) ==
    LET type == from_bytes(SubSeq(header, 1, 1))
        length == from_bytes(SubSeq(header, 2, 5))
    IN  IF Len(buffer) < length THEN DecodeError
        ELSE from_raw(type, SubSeq(buffer, 1, length))

\* serialize is called on the message
Serialize ==
    /\ codec_pc = "new"
    /\ codec_frame' = serialize(codec_msg)
    /\ codec_pc' = "framed"
    /\ UNCHANGED <<snapVars, agentVars, watchVars, fanVars, moreVars, serveVars, sendVars, collVars,
                   schedVars,
                   codec_msg, codec_out>>

\* the peer reads the frame into a buffer that holds stale bytes
Receive(stale) ==
    /\ codec_pc = "framed"
    /\ codec_out' = receive(SubSeq(codec_frame, 1, 5),
                            SubSeq(codec_frame, 6, Len(codec_frame)) \o stale)
    /\ codec_pc' = "decoded"
    /\ UNCHANGED <<snapVars, agentVars, watchVars, fanVars, moreVars, serveVars, sendVars, collVars,
                   schedVars,
                   codec_msg, codec_frame>>

\* ========================================== agent: the log collector
\* the log names the proxies report
Names == {"x", "y"}
\* AddRecord messages the event loop handles
MaxCollect == 3
\* upload_records calls of the scheduler
MaxUploadRuns == 2
\* GetLogPosition messages the event loop handles
MaxPosRequests == 1

NoSnapshot == [log_id |-> 0, first_line |-> 0, line_count |-> 0]
\* the dict upload_prep returns, before there is one
NoData == [op |-> "none", name |-> "", firstLine |-> 0, lastLine |-> 0, logId |-> 0]
\* the iterators of the upload_records calls, before there is one
NoUploads ==
    [t \in {"interval", "maintenance"} |->
        [pc |-> "idle", idx |-> 0, size |-> 0, runs |-> 0, data |-> NoData]]

\* ListLogCollector.log_size: the sum of line_count over the snapshots
RECURSIVE log_size(_, _)
log_size(snap, order) ==
    IF order = <<>> THEN 0
    ELSE snap[Head(order)].line_count + log_size(snap, Tail(order))

\* the range of log_size() over the states since the state-maintenance job
\* called it, widened by the value the snapshots snap under the keys order give
Observed(snap, order) ==
    IF sm.pc # "log_size" THEN coll_range
    ELSE LET now == log_size(snap, order)
         IN  [lo |-> IF now < coll_range.lo THEN now ELSE coll_range.lo,
              hi |-> IF now > coll_range.hi THEN now ELSE coll_range.hi]

\* a next line that leaves the snapshot's records out
next_line_without_count(snapshot) == snapshot.first_line
\* Snapshot.get_next_line of one of the collector's snapshots
snapshot_next_line(snapshot) == snapshot.first_line + snapshot.line_count

\* a lookup that never finds the name
AlwaysUnknown(n) == TRUE
\* self.snapshots.get(log_name) is None
IsUnknown(n) == \A i \in 1..Len(coll_order) : coll_order[i] # n

\* ---- event loop thread: AddRecord -> collect_record(record)
\* a known name: snapshot.add_record; an unknown one: post_log, which
\* posts the name and gets the id the backend mints
collect_record(n) ==
    /\ coll_pc.pc = "idle"
    /\ coll_n < MaxCollect
    /\ coll_n' = coll_n + 1
    /\ IF IsUnknown(n)
       THEN LET id == Cardinality({m \in Names : backend_id[m] # 0}) + 1
            IN  /\ backend_calls' = Append(backend_calls,
                                           [op |-> "log", name |-> n, id |-> id])
                /\ backend_id' = [backend_id EXCEPT ![n] = id]
                /\ coll_pc' = [pc |-> "store", name |-> n, id |-> id]
                /\ UNCHANGED coll_snap
       ELSE /\ coll_snap' = [coll_snap EXCEPT ![n].line_count = @ + 1]
            /\ UNCHANGED <<backend_calls, backend_id, coll_pc>>
    /\ coll_hist' = IF IsUnknown(n) THEN coll_hist
                    ELSE [coll_hist EXCEPT ![n].collected = @ + 1]
    /\ UNCHANGED <<snapVars, agentVars, watchVars, fanVars, moreVars, serveVars, sendVars,
                   schedVars,
                   codecVars, rehydrated, coll_order, pos_reply, up>>
    /\ coll_range' = Observed(coll_snap', coll_order')

\* self.snapshots[log_name] = snapshot; snapshot.add_record(record)
CollectStore ==
    /\ coll_pc.pc = "store"
    /\ coll_order' = IF IsUnknown(coll_pc.name)
                     THEN Append(coll_order, coll_pc.name) ELSE coll_order
    /\ coll_snap' = [coll_snap EXCEPT ![coll_pc.name] =
                        [log_id |-> coll_pc.id, first_line |-> 0, line_count |-> 1]]
    /\ coll_pc' = [pc |-> "idle"]
    /\ coll_hist' = [coll_hist EXCEPT ![coll_pc.name] = [first_line |-> 0, collected |-> 1]]
    /\ UNCHANGED <<snapVars, agentVars, watchVars, fanVars, moreVars, serveVars, sendVars,
                   schedVars,
                   codecVars, rehydrated, backend_id, backend_calls, coll_n,
                   pos_reply, up>>
    /\ coll_range' = Observed(coll_snap', coll_order')

\* ---- event loop thread: GetLogPosition -> get_log_position(log)
get_log_position(n) ==
    /\ coll_pc.pc = "idle"
    /\ Len(pos_reply) < MaxPosRequests
    /\ pos_reply' = Append(pos_reply,
          [name |-> n,
           position |-> IF IsUnknown(n) THEN 0
                        ELSE snapshot_next_line(coll_snap[n])])
    /\ UNCHANGED <<snapVars, agentVars, watchVars, fanVars, moreVars, serveVars, sendVars,
                   schedVars,
                   codecVars, rehydrated, backend_id, backend_calls, coll_order,
                   coll_snap, coll_pc, coll_n, up, coll_range, coll_hist>>

\* ---- scheduler threads: upload_records, run by the periodic upload job
\* and by the state-maintenance job
UploadThreads == {"interval", "maintenance"}

\* "for snapshot in self.snapshots.values()": the iterator a call creates
ValuesIterator(runs) ==
    [pc |-> "iter", idx |-> 0, size |-> Len(coll_order), runs |-> runs, data |-> NoData]

\* the periodic upload job fires
UploadBegin ==
    /\ up["interval"].pc = "idle"
    /\ up["interval"].runs < MaxUploadRuns
    /\ up' = [up EXCEPT !["interval"] = ValuesIterator(up["interval"].runs + 1)]
    /\ UNCHANGED <<snapVars, agentVars, watchVars, fanVars, moreVars, serveVars, sendVars,
                   schedVars,
                   codecVars, rehydrated, backend_id, backend_calls, coll_order,
                   coll_snap, coll_pc, coll_n, pos_reply, coll_range, coll_hist>>

\* one turn of the loop. A dict that changed size since the iterator was
\* created raises RuntimeError and the job ends; otherwise post_snapshot
\* begins: upload_prep (to_dict, reset) under the snapshot's lock
UploadStep(t) ==
    /\ up[t].pc = "iter"
    /\ IF Len(coll_order) # up[t].size \/ up[t].idx >= up[t].size
       THEN /\ up' = [up EXCEPT ![t].pc = "idle"]
            /\ UNCHANGED coll_snap
       ELSE LET n == coll_order[up[t].idx + 1]
                data == [op |-> "snapshot", name |-> n,
                         firstLine |-> coll_snap[n].first_line,
                         lastLine |-> snapshot_next_line(coll_snap[n]) - 1,
                         logId |-> coll_snap[n].log_id]
            IN  /\ coll_snap' = [coll_snap EXCEPT
                                   ![n].first_line = snapshot_next_line(coll_snap[n]),
                                   ![n].line_count = 0]
                /\ up' = [up EXCEPT ![t].pc = "post", ![t].data = data]
    /\ coll_range' = Observed(coll_snap', coll_order)
    /\ UNCHANGED <<snapVars, agentVars, watchVars, fanVars, moreVars, serveVars, sendVars,
                   schedVars,
                   codecVars, rehydrated, backend_id, backend_calls, coll_order,
                   coll_pc, coll_n, pos_reply, coll_hist>>

\* post_snapshot goes on: the POST when the snapshot has lines
UploadPost(t) ==
    /\ up[t].pc = "post"
    /\ backend_calls' = IF HasLines(up[t].data)
                        THEN Append(backend_calls, up[t].data)
                        ELSE backend_calls
    /\ up' = [up EXCEPT ![t].pc = "iter", ![t].idx = @ + 1, ![t].data = NoData]
    /\ UNCHANGED <<snapVars, agentVars, watchVars, fanVars, moreVars, serveVars, sendVars,
                   schedVars,
                   codecVars, rehydrated, backend_id, coll_order, coll_snap,
                   coll_pc, coll_n, pos_reply, coll_range, coll_hist>>

\* ================================================= agent: LFBSched
\* sync_config calls (start, then the state-maintenance job)
MaxSyncs == 3
\* the snapshotInterval values the backend's config returns, in seconds
Intervals == {-1, 0, 1, 2, 60, 120}

NoJob == [id |-> 0, interval |-> 0]
\* runs of the state-maintenance job
MaxMaintRuns == 1
\* the maxRecordCount values the backend's config returns
MaxSizes == {-1, 0, 1, 2}

\* LFBSched.__init__
InitJobs ==
    /\ sched_job = NoJob
    /\ sched_live = {}
    /\ sched_added = 0
    /\ max_log_size = 0
    /\ last_sync = [n |-> 0, seconds |-> 0, old |-> 0, did |-> "none"]
    /\ sm = [pc |-> "idle", idx |-> 0, size |-> 0, ret |-> 0, result |-> "none"]

\* seconds != self._get_current_interval(), which is
\* trigger.interval_length / 60 for a job and 0 without one: the quotient
\* of the job's seconds by 60 equals the integer seconds exactly when the
\* job's interval is 60 * seconds
IntervalDiffers(seconds) ==
    IF sched_job # NoJob THEN sched_job.interval # 60 * seconds
    ELSE seconds # 0

\* sync_config with the config {snapshotInterval: seconds, maxRecordCount:
\* max_size}: _change_interval, _change_max_log_size
sync_config(seconds, max_size) ==
    /\ last_sync.n < MaxSyncs
    /\ max_log_size' = max_size
    /\ LET did == IF ~IntervalDiffers(seconds) THEN "nothing"
                  ELSE IF sched_job # NoJob
                       THEN IF seconds > 0 THEN "reschedule" ELSE "remove"
                       ELSE IF seconds > 0 THEN "add" ELSE "nothing"
       IN  /\ last_sync' = [n |-> last_sync.n + 1, seconds |-> seconds,
                            old |-> sched_job.interval, did |-> did]
           /\ sched_job' =
                 CASE did = "reschedule" -> [sched_job EXCEPT !.interval = seconds]
                   [] did = "remove" -> NoJob
                   [] did = "add" -> [id |-> sched_added + 1, interval |-> seconds]
                   [] OTHER -> sched_job
           /\ sched_live' =
                 CASE did = "remove" -> sched_live \ {sched_job.id}
                   [] did = "add" -> sched_live \cup {sched_added + 1}
                   [] OTHER -> sched_live
           /\ sched_added' = IF did = "add" THEN sched_added + 1 ELSE sched_added

\* LFBSched.start, and any other caller of sync_config alone
start(seconds, max_size) ==
    /\ sync_config(seconds, max_size)
    /\ UNCHANGED <<snapVars, agentVars, watchVars, fanVars, moreVars, serveVars, sendVars,
                   codecVars, collVars, sm>>

\* ---- the state-maintenance job's thread: state_maintenance_sync
\* self.sync_config(), then log_size() creates its iterator over
\* self.snapshots.values()
StateMaintenanceSync(seconds, max_size) ==
    /\ sm.pc # "log_size"
    /\ last_sync.n < MaxMaintRuns
    /\ up["maintenance"].pc = "idle"
    /\ sync_config(seconds, max_size)
    /\ sm' = [pc |-> "log_size", idx |-> 0, size |-> Len(coll_order), ret |-> 0,
              result |-> "none"]
    /\ LET now == log_size(coll_snap, coll_order)
       IN  coll_range' = [lo |-> now, hi |-> now]
    /\ UNCHANGED <<snapVars, agentVars, watchVars, fanVars, moreVars, serveVars, sendVars,
                   codecVars, rehydrated, backend_id, backend_calls, coll_order,
                   coll_snap, coll_pc, coll_n, pos_reply, up, coll_hist>>

\* one turn of log_size's loop, which raises RuntimeError when the dict
\* changed size since the iterator was created; after the last turn the
\* test "log_size() > self.max_log_size > 0" and, when it holds, the call of
\* upload_records, which creates its iterator
LogSizeStep ==
    /\ sm.pc = "log_size"
    /\ IF Len(coll_order) # sm.size
       THEN /\ sm' = [sm EXCEPT !.pc = "done", !.result = "error"]
            /\ UNCHANGED up
       ELSE IF sm.idx < sm.size
       THEN /\ sm' = [sm EXCEPT !.idx = @ + 1,
                         !.ret = @ + coll_snap[coll_order[sm.idx + 1]].line_count]
            /\ UNCHANGED up
       ELSE IF sm.ret > max_log_size /\ max_log_size > 0
       THEN /\ sm' = [sm EXCEPT !.pc = "done", !.result = "upload"]
            /\ up' = [up EXCEPT !["maintenance"] = ValuesIterator(0)]
       ELSE /\ sm' = [sm EXCEPT !.pc = "done", !.result = "skip"]
            /\ UNCHANGED up
    /\ UNCHANGED <<snapVars, agentVars, watchVars, fanVars, moreVars, serveVars, sendVars,
                   codecVars, rehydrated, backend_id, backend_calls, coll_order,
                   coll_snap, coll_pc, coll_n, pos_reply, coll_range, coll_hist,
                   sched_job, sched_live, sched_added, max_log_size, last_sync>>

\* ============================================ agent: locks and threads
\* the threads of the agent process that take locks: the event loop, the
\* scheduler's verify_logs and upload jobs, the validator worker
LockThreads == {"loop", "verify", "upload", "worker"}

\* Snapshot.mutex (an RLock), NetworkConnection.__send_mutex,
\* ContentRequestHandler.__request_mutex, ContentRequest.__mutex (Locks);
\* one connection per proxy and one request per connection
Lk(kind, p) == [kind |-> kind, p |-> p]

\* "with lock:" around the acquires and releases of body
With(lock, body) ==
    <<[op |-> "acquire", lock |-> lock]>> \o body \o <<[op |-> "release", lock |-> lock]>>

\* ContentRequest.get_status taking a lock of another object first
get_status_inverted(p) ==
    With(Lk("status", p), With(Lk("request", p), <<>>))
\* ContentRequest.get_status
get_status_locks(p) == With(Lk("status", p), <<>>)

\* ProxyConnection.request_content sending inside create_request's lock
request_content_nested(p) ==
    With(Lk("request", p), With(Lk("send", p), <<>>))
\* ProxyConnection.request_content: create_request, then connection.send
request_content_locks(p) ==
    With(Lk("request", p), <<>>) \o With(Lk("send", p), <<>>)

\* LfbAgent.request_log_content over the connections i..NumProxies
RECURSIVE request_log_content_locks(_)
request_log_content_locks(i) ==
    IF i > NumProxies THEN <<>>
    ELSE request_content_locks(i) \o request_log_content_locks(i + 1)

\* the acquires and releases of the other calls, in program order
LockProgram(call, p) ==
    CASE call = "ContentRequest.set_status" -> With(Lk("status", p), <<>>)
      [] call = "handler.set_status" ->
            With(Lk("request", p), With(Lk("status", p), <<>>))
      [] call = "handler.set_status, unknown id" -> With(Lk("request", p), <<>>)
      [] call = "handler.add_records" -> With(Lk("request", p), <<>>)
      [] call = "send" -> With(Lk("send", p), <<>>)
      [] call = "add_record" -> With(Lk("snapshot", 0), <<>>)
      [] call = "get_next_line" -> With(Lk("snapshot", 0), <<>>)
      [] call = "upload_prep" ->
            With(Lk("snapshot", 0),
                 With(Lk("snapshot", 0), With(Lk("snapshot", 0), <<>>))
                 \o With(Lk("snapshot", 0), With(Lk("snapshot", 0), <<>>)))

\* what each thread calls: the event loop deserializes a LogContentStatus,
\* a LogContentData, an AddRecord or a GetLogPosition (and sends the
\* response); verify_logs fans a request out; the upload job posts a
\* snapshot; the worker reads a child's status or drops a child
LockCalls(t) ==
    CASE t = "loop" ->
            UNION {{LockProgram("handler.set_status", p),
                    LockProgram("handler.set_status, unknown id", p),
                    LockProgram("handler.add_records", p),
                    LockProgram("get_next_line", p) \o LockProgram("send", p)}
                   : p \in Proxies}
            \cup {LockProgram("add_record", 0)}
      [] t = "verify" -> {request_log_content_locks(1)}
      [] t = "upload" -> {LockProgram("upload_prep", 0)}
      [] t = "worker" ->
            UNION {{get_status_locks(p), LockProgram("handler.set_status", p),
                    LockProgram("handler.set_status, unknown id", p)}
                   : p \in Proxies}

InitLocks ==
    /\ held = [t \in LockThreads |-> <<>>]
    /\ lk_prog = [t \in LockThreads |-> <<>>]

Holds(t, lock) == \E i \in 1..Len(held[t]) : held[t][i] = lock

\* Lock.acquire succeeds on a free lock; RLock.acquire also on one its
\* caller holds
CanAcquireLock(t, lock) ==
    /\ \A u \in LockThreads \ {t} : ~Holds(u, lock)
    /\ Holds(t, lock) => lock.kind = "snapshot"

\* thread t begins a call
LockCall(t, prog) ==
    /\ lk_prog[t] = <<>>
    /\ lk_prog' = [lk_prog EXCEPT ![t] = prog]
    /\ UNCHANGED <<snapVars, agentVars, watchVars, fanVars, wmVars, recvVars, serveVars, sendVars,
                   codecVars, collVars, schedVars, held>>

\* thread t passes the acquire it is at
LockAcquire(t) ==
    /\ lk_prog[t] # <<>>
    /\ Head(lk_prog[t]).op = "acquire"
    /\ CanAcquireLock(t, Head(lk_prog[t]).lock)
    /\ held' = [held EXCEPT ![t] = Append(@, Head(lk_prog[t]).lock)]
    /\ lk_prog' = [lk_prog EXCEPT ![t] = Tail(@)]
    /\ UNCHANGED <<snapVars, agentVars, watchVars, fanVars, wmVars, recvVars, serveVars, sendVars,
                   codecVars, collVars, schedVars>>

\* thread t releases the lock it acquired last
LockRelease(t) ==
    /\ lk_prog[t] # <<>>
    /\ Head(lk_prog[t]).op = "release"
    /\ held' = [held EXCEPT ![t] = SubSeq(@, 1, Len(@) - 1)]
    /\ lk_prog' = [lk_prog EXCEPT ![t] = Tail(@)]
    /\ UNCHANGED <<snapVars, agentVars, watchVars, fanVars, wmVars, recvVars, serveVars, sendVars,
                   codecVars, collVars, schedVars>>

\* ===================================== proxy: UnixFileWatcherManager
\* the file names that come and go in the watched directory
DirNames == {"a", "b"}
\* events and messages the proxy handles
MaxWatchSteps == 5

NoAnomaly == [kind |-> "none", path |-> "", warned |-> FALSE]

\* the component when no directory is watched
WatchManagerOff ==
    /\ dir_files = {} /\ wm_events = {} /\ wm_initialized = {} /\ wm_pending = {}
    /\ wm_emitted = [c \in DirNames |-> 0]
    /\ wm_last = NoAnomaly /\ wm_steps = 0 /\ wm_alive = TRUE

\* fileproxy's main: begin_watch(directory) watches every file listed in it;
\* each FileEvent's setup sends a GetLogPosition
BeginWatchDirectory ==
    /\ dir_files \in SUBSET DirNames
    /\ wm_events = dir_files
    /\ wm_initialized = {}
    /\ wm_pending = dir_files
    /\ wm_emitted = [c \in DirNames |-> 0]
    /\ wm_last = NoAnomaly
    /\ wm_steps = 0
    /\ wm_alive = TRUE

\* the notifier thread or the main thread handles one more event
WatchStep ==
    /\ wm_alive
    /\ wm_steps < MaxWatchSteps
    /\ wm_steps' = wm_steps + 1

\* UnixFileWatcherManager.begin_watch(path) for a file, called by
\* DirEvent.process_IN_CREATE / process_IN_MOVED_TO in the notifier thread:
\* the ValueError of a watched path leaves notifier.loop() and listen_watches
\* ends the process with os._exit(1)
begin_watch(c) ==
    IF c \in wm_events
    THEN /\ wm_alive' = FALSE
         /\ wm_last' = [kind |-> "already watched", path |-> c, warned |-> FALSE]
         /\ UNCHANGED <<wm_events, wm_pending, wm_initialized>>
    ELSE /\ wm_events' = wm_events \cup {c}
         /\ wm_pending' = wm_pending \cup {c}
         /\ wm_initialized' = wm_initialized \ {c}
         /\ wm_last' = NoAnomaly
         /\ UNCHANGED wm_alive

\* FileEvent.process_IN_DELETE_SELF / process_IN_MOVE_SELF of the file c,
\* then UnixFileWatcherManager.end_watch(path), called by
\* DirEvent.process_IN_DELETE / process_IN_MOVED_FROM
end_watch(c) ==
    IF c \notin wm_events
    THEN /\ wm_alive' = FALSE
         /\ wm_last' = [kind |-> "not watched", path |-> c, warned |-> FALSE]
         /\ UNCHANGED <<wm_events, wm_initialized>>
    ELSE /\ wm_events' = wm_events \ {c}
         /\ wm_initialized' = wm_initialized \ {c}
         /\ wm_last' = [kind |-> "disappeared", path |-> c,
                        warned |-> c \in wm_initialized]
         /\ UNCHANGED wm_alive

\* a file named c is created in the directory: IN_CREATE
FileCreated(c) ==
    /\ WatchStep
    /\ c \notin dir_files
    /\ dir_files' = dir_files \cup {c}
    /\ begin_watch(c)
    /\ UNCHANGED <<snapVars, agentVars, watchVars, fanVars, lockVars, recvVars, serveVars,
                   sendVars, codecVars, collVars, schedVars, wm_emitted>>

\* a file is renamed to c in the directory, over the file of that name when
\* there is one: IN_MOVED_TO
FileMovedIn(c) ==
    /\ WatchStep
    /\ dir_files' = dir_files \cup {c}
    /\ begin_watch(c)
    /\ UNCHANGED <<snapVars, agentVars, watchVars, fanVars, lockVars, recvVars, serveVars,
                   sendVars, codecVars, collVars, schedVars, wm_emitted>>

\* the file c is deleted or moved out of the directory: IN_DELETE_SELF /
\* IN_MOVE_SELF for the file, IN_DELETE / IN_MOVED_FROM for the directory
FileRemoved(c) ==
    /\ WatchStep
    /\ c \in dir_files
    /\ dir_files' = dir_files \ {c}
    /\ end_watch(c)
    /\ UNCHANGED <<snapVars, agentVars, watchVars, fanVars, lockVars, recvVars, serveVars,
                   sendVars, codecVars, collVars, schedVars, wm_emitted, wm_pending>>

\* IN_MODIFY for the file c after a write of complete lines, or of nothing:
\* process_IN_MODIFY returns for a watch not initialized, read_records
\* returns on len(data) == 0 and calls on_record_added otherwise
FileWritten(c, empty) ==
    /\ WatchStep
    /\ c \in dir_files /\ c \in wm_events
    /\ IF c \notin wm_initialized
       THEN UNCHANGED <<wm_emitted, wm_last>>
       ELSE IF empty
       THEN /\ wm_last' = [kind |-> "empty write", path |-> c, warned |-> FALSE]
            /\ UNCHANGED wm_emitted
       ELSE /\ wm_emitted' = [wm_emitted EXCEPT ![c] = @ + 1]
            /\ wm_last' = NoAnomaly
    /\ UNCHANGED <<snapVars, agentVars, watchVars, fanVars, lockVars, recvVars, serveVars,
                   sendVars, codecVars, collVars, schedVars, dir_files, wm_events,
                   wm_initialized, wm_pending, wm_alive>>

\* the main thread gets the LogPositionResponse for c:
\* UnixFileWatcherManager.initialize_watch, whose ValueError for a path no
\* longer watched ends the process in the main loop's except
initialize_watch(c) ==
    /\ WatchStep
    /\ c \in wm_pending
    /\ wm_pending' = wm_pending \ {c}
    /\ IF c \in wm_events
       THEN /\ wm_initialized' = wm_initialized \cup {c}
            /\ wm_last' = NoAnomaly
            /\ UNCHANGED wm_alive
       ELSE /\ wm_alive' = FALSE
            /\ wm_last' = [kind |-> "not watched", path |-> c, warned |-> FALSE]
            /\ UNCHANGED wm_initialized
    /\ UNCHANGED <<snapVars, agentVars, watchVars, fanVars, lockVars, recvVars, serveVars,
                   sendVars, codecVars, collVars, schedVars, dir_files, wm_events,
                   wm_emitted>>

\* ============================= NetworkConnection.receive, lsocket.read
\* messages the peer sends
MaxMessages == 2
\* bytes of a message body
MaxBody == 2

NoMessage == [type |-> 0, length |-> 0 - 1]

\* the frame of the j-th message, of type j with a body of n bytes that
\* name the message and their place in it
Frame(j, n) ==
    to_bytes(j, 1) \o to_bytes(n, 4) \o [i \in 1..n |-> 16 * j + i]

RECURSIVE Frames(_)
Frames(ms) ==
    IF ms = <<>> THEN <<>>
    ELSE Frame(Head(ms).type, Len(Head(ms).body)) \o Frames(Tail(ms))

\* NetworkConnection.__init__ and BufferingSocket.__init__
NewConnection ==
    /\ rx_buffer = <<>>
    /\ rx_position = 0
    /\ rx_count = 0
    /\ rx_msg = NoMessage
    /\ rx_delivered = <<>>
    /\ rx_pc = "idle"

\* the buffer after recv_into wrote bs at self.__position
Written(bs) ==
    LET n == IF rx_position + Len(bs) > Len(rx_buffer)
             THEN rx_position + Len(bs) ELSE Len(rx_buffer)
    IN  [i \in 1..n |->
            IF i > rx_position /\ i <= rx_position + Len(bs)
            THEN bs[i - rx_position] ELSE rx_buffer[i]]

\* a read that gives up on every would-block
BreaksAlways(no_block) == TRUE
\* read's "if no_block or self.__position == 0: break" on EAGAIN
BreaksOnWouldBlock(no_block) == no_block \/ rx_position = 0

\* receive() is called: with no current message begin_read(5) and
\* read(False), else read() goes on where it stopped
ReceiveCall ==
    /\ rx_pc = "idle"
    /\ IF rx_msg = NoMessage
       THEN rx_position' = 0 /\ rx_count' = 5 /\ rx_pc' = "header"
       ELSE rx_pc' = "body" /\ UNCHANGED <<rx_position, rx_count>>
    /\ UNCHANGED <<snapVars, agentVars, watchVars, fanVars, lockVars, wmVars, serveVars,
                   sendVars, codecVars, collVars, schedVars, rx_in, rx_sent, rx_stream,
                   rx_buffer, rx_msg, rx_delivered>>

\* the deserializer gets RawNetworkMessage(meta, buffer), whose
\* get_contents is buffer[:meta.length]; receive returns True
Delivered(meta, buffer) ==
    Append(rx_delivered, [type |-> meta.type, body |-> SubSeq(buffer, 1, meta.length)])

\* recv_into returns k bytes, at most count_to_read - position of them.
\* When the header is complete: NetworkMessageMeta, begin_read(meta.length),
\* and read() returns at once for a body of no bytes; when the body is
\* complete: deserialize
RecvBytes(k) ==
    /\ rx_pc \in {"header", "body"}
    /\ k \in 1..(rx_count - rx_position)
    /\ k <= Len(rx_stream)
    /\ rx_stream' = SubSeq(rx_stream, k + 1, Len(rx_stream))
    /\ rx_buffer' = Written(SubSeq(rx_stream, 1, k))
    /\ IF rx_position + k < rx_count
       THEN /\ rx_position' = rx_position + k
            /\ UNCHANGED <<rx_count, rx_msg, rx_delivered, rx_pc>>
       ELSE IF rx_pc = "header"
       THEN LET meta == [type |-> from_bytes(SubSeq(rx_buffer', 1, 1)),
                         length |-> from_bytes(SubSeq(rx_buffer', 2, 5))]
            IN  /\ rx_position' = 0
                /\ rx_count' = meta.length
                /\ IF meta.length = 0
                   THEN /\ rx_delivered' = Delivered(meta, rx_buffer')
                        /\ rx_msg' = NoMessage
                        /\ rx_pc' = "idle"
                   ELSE /\ rx_msg' = meta
                        /\ rx_pc' = "body"
                        /\ UNCHANGED rx_delivered
       ELSE /\ rx_position' = rx_position + k
            /\ rx_delivered' = Delivered(rx_msg, rx_buffer')
            /\ rx_msg' = NoMessage
            /\ rx_pc' = "idle"
            /\ UNCHANGED rx_count
    /\ UNCHANGED <<snapVars, agentVars, watchVars, fanVars, lockVars, wmVars, serveVars,
                   sendVars, codecVars, collVars, schedVars, rx_in, rx_sent>>

\* recv_into raises EAGAIN / EWOULDBLOCK: read breaks and receive returns
\* False, or read tries again
RecvWouldBlock ==
    /\ rx_pc \in {"header", "body"}
    /\ rx_pc' = IF BreaksOnWouldBlock(rx_pc = "body") THEN "idle" ELSE rx_pc
    /\ UNCHANGED <<snapVars, agentVars, watchVars, fanVars, lockVars, wmVars, serveVars,
                   sendVars, codecVars, collVars, schedVars, rx_in, rx_sent, rx_stream,
                   rx_buffer, rx_position, rx_count, rx_msg, rx_delivered>>

\* recv_into returns 0, the peer having closed after the bytes it sent:
\* read raises ConnectionError, which its except clause raises again
RecvZero ==
    /\ rx_pc \in {"header", "body"}
    /\ rx_stream = <<>>
    /\ rx_pc' = "raised"
    /\ UNCHANGED <<snapVars, agentVars, watchVars, fanVars, lockVars, wmVars, serveVars,
                   sendVars, codecVars, collVars, schedVars, rx_in, rx_sent, rx_stream,
                   rx_buffer, rx_position, rx_count, rx_msg, rx_delivered>>

\* the watcher with no file to watch
WatchIdle ==
    /\ file_content = <<>>
    /\ stream_pos = 0
    /\ prev_line = <<>>
    /\ to_skip = 0
    /\ initialized = FALSE
    /\ mpc = "start"
    /\ modify_events = 0
    /\ sent = <<>>
    /\ start_line = 0
    /\ proxy_running = TRUE

\* the components modelled after the three above before they run, but for
\* component c, whose specification starts it itself
RestIdleExcept(c) ==
    /\ c # "fan" =>
          fan_pc = "idle" /\ fan_idx = 0 /\ fan_out = <<>> /\ fan_began = {}
    /\ c # "serve" =>
          /\ cm_pc = "idle" /\ cm_watched = FALSE /\ cm_file = <<>>
          /\ cm_begin = 0 /\ cm_end = 0 /\ cm_record = 0
          /\ cm_stream = <<>> /\ cm_sent = <<>>
    /\ c # "send" => SendInit
    /\ c # "codec" =>
          /\ codec_pc = "off" /\ codec_msg = [type |-> 0]
          /\ codec_frame = <<>> /\ codec_out = [type |-> 0]
    /\ c # "coll" =>
          /\ rehydrated = {} /\ backend_id = [n \in Names |-> 0]
          /\ backend_calls = <<>> /\ coll_order = <<>>
          /\ coll_snap = [n \in Names |-> NoSnapshot]
          /\ coll_pc = [pc |-> "idle"] /\ coll_n = 0 /\ pos_reply = <<>>
          /\ up = NoUploads /\ coll_range = [lo |-> 0, hi |-> 0]
          /\ coll_hist = [n \in Names |-> [first_line |-> 0, collected |-> 0]]
    /\ c # "sched" => InitJobs
    /\ c # "locks" => InitLocks
    /\ c # "wm" => WatchManagerOff
    /\ c # "recv" => rx_in = <<>> /\ rx_sent = <<>> /\ rx_stream = <<>> /\ NewConnection

SnapIdle ==
    /\ initial_first_line = 0
    /\ first_line = 0
    /\ line_count = 0
    /\ cum_hash = hash_fun(EmptyStr)
    /\ mutex = [t \in SnapThreads |-> 0]
    /\ spc = [t \in SnapThreads |-> "idle"]
    /\ slocal = [t \in SnapThreads |-> NoLocal]
    /\ added = <<>>
    /\ since_reset = <<>>
    /\ prepped = <<>>
    /\ posts = <<>>

\* the agent with nothing to validate
AgentIdle == AgentStart /\ orig = <<>> /\ backend_snapshots = <<>>

\* SpecSnap: the collector's snapshot under the event loop and the scheduler
InitSnap == SnapInit /\ AgentIdle /\ WatchIdle /\ RestIdleExcept("none")
SpecSnap == InitSnap /\ [][SnapNext]_vars

\* SpecLead: every proxy connects; the records all have the same data
OneValue == {<<Ch("a")>>}
InitLead == AgentInit(OneValue) /\ SnapIdle /\ WatchIdle /\ RestIdleExcept("none")
SpecLead == InitLead /\ [][AgentNext(Proxies, OneValue)]_vars

\* SpecVal: one proxy connects; its records are empty lines or not
TwoValues == {EmptyStr, <<Ch("a")>>}
InitVal == AgentInit(TwoValues) /\ SnapIdle /\ WatchIdle /\ RestIdleExcept("none")
SpecVal == InitVal /\ [][AgentNext({1}, TwoValues)]_vars

\* SpecWatch: the watcher of one file
\* a GetLogContent{begin, end} reaches the proxy whose file holds data
InitServe ==
    /\ cm_pc = "idle"
    /\ cm_watched \in BOOLEAN
    /\ cm_file \in SeqsOf(FileChars, 0, MaxFileLen)
    /\ cm_begin \in 0..MaxReqLine
    /\ cm_end \in cm_begin..MaxReqLine
    /\ cm_record = 0
    /\ cm_stream = <<>>
    /\ cm_sent = <<>>
    /\ SnapIdle /\ AgentIdle /\ WatchIdle /\ RestIdleExcept("serve")
SpecServe ==
    InitServe /\ [][\/ HandleContentRequest
                    \/ OpenLogStream
                    \/ SendBatch
                    \/ SendEnd]_vars

\* a watched file of whole lines, asked for a range that may span batches
InitBatch ==
    /\ cm_pc = "idle"
    /\ cm_watched = TRUE
    /\ \E n \in 0..MaxStreamLines : cm_file = [i \in 1..n |-> LF]
    /\ cm_begin \in 0..MaxReqLine
    /\ cm_end \in cm_begin..MaxStreamLines
    /\ cm_record = 0
    /\ cm_stream = <<>>
    /\ cm_sent = <<>>
    /\ SnapIdle /\ AgentIdle /\ WatchIdle /\ RestIdleExcept("serve")
SpecBatch ==
    InitBatch /\ [][\/ HandleContentRequest
                    \/ OpenLogStream
                    \/ SendBatch
                    \/ SendEnd]_vars

InitSend == SendInit /\ SnapIdle /\ AgentIdle /\ WatchIdle /\ RestIdleExcept("send")
SpecSend ==
    InitSend /\ [][\/ \E t \in SendThreads : SendAcquire(t)
                   \/ \E t \in SendThreads : WriteAppend(t)
                   \/ \E t \in SendThreads : \E nsent \in 0..MsgLen : WriteSend(t, nsent)
                   \/ \E t \in SendThreads : WriteRequeue(t)
                   \/ \E t \in SendThreads : WriteReturn(t)
                   \/ \E t \in SendThreads : SendRelease(t)]_vars

\* a message of one of the six classes, as the agent and the proxy build them
InitCodec ==
    /\ codec_pc = "new"
    /\ codec_frame = <<>>
    /\ codec_out = [type |-> 0]
    /\ \E name \in {EmptyStr, <<Ch("a")>>} : \E n, b, e \in 0..MaxField :
         \E d \in Data : \E st \in {-1, 0, 1} :
           \E rs \in SeqsOf(Data, 1, MaxField + 1) :
             codec_msg \in
               { [type |-> 1, log_name |-> name, data |-> d, timestamp |-> n],
                 [type |-> 2, log_name |-> name],
                 [type |-> 3, log_name |-> name, position |-> n],
                 [type |-> 5, request_id |-> n, status |-> st] }
               \cup (IF b <= e
                     THEN {[type |-> 4, log_name |-> name, request_id |-> n,
                            begin_record |-> b, end_record |-> e]}
                     ELSE {})
               \cup (IF b <= e /\ Len(rs) = e - b + 1
                     THEN {[type |-> 6, request_id |-> n, begin_record |-> b,
                            end_record |-> e, contents |-> rs]}
                     ELSE {})
    /\ SnapIdle /\ AgentIdle /\ WatchIdle /\ RestIdleExcept("codec")
SpecCodec ==
    InitCodec /\ [][\/ Serialize
                    \/ \E stale \in {<<>>, <<[f |-> "contents", v |-> EmptyStr]>>} : Receive(stale)]_vars

\* ListLogCollector.__init__: get_logs() rehydrates one snapshot per log the
\* backend knows, with the log's id and its record count as first_line
InitColl ==
    /\ rehydrated \in SUBSET Names
    /\ \E order \in SeqsOf(Names, 0, Cardinality(Names)) :
         /\ {order[i] : i \in 1..Len(order)} = rehydrated
         /\ Len(order) = Cardinality(rehydrated)
         /\ coll_order = order
         /\ backend_id = [n \in Names |->
                IF n \in rehydrated THEN CHOOSE i \in 1..Len(order) : order[i] = n
                ELSE 0]
    /\ \E records \in [Names -> 0..MaxFirstLine] :
         coll_snap = [n \in Names |->
             IF n \in rehydrated
             THEN [log_id |-> backend_id[n], first_line |-> records[n], line_count |-> 0]
             ELSE NoSnapshot]
    /\ backend_calls = <<>>
    /\ coll_pc = [pc |-> "idle"]
    /\ coll_n = 0
    /\ pos_reply = <<>>
    /\ up = NoUploads
    /\ coll_range = [lo |-> 0, hi |-> 0]
    /\ coll_hist = [n \in Names |->
                       [first_line |-> coll_snap[n].first_line, collected |-> 0]]
    /\ SnapIdle /\ AgentIdle /\ WatchIdle /\ RestIdleExcept("coll")
SpecColl ==
    InitColl /\ [][\/ \E n \in Names : collect_record(n)
                   \/ CollectStore
                   \/ \E n \in Names : get_log_position(n)
                   \/ UploadBegin
                   \/ UploadStep("interval")
                   \/ UploadPost("interval")]_vars

\* the collector with the state-maintenance job beside the periodic upload
\* job and the event loop
SpecMaint ==
    InitColl /\ [][\/ \E n \in Names : collect_record(n)
                   \/ CollectStore
                   \/ UploadBegin
                   \/ \E t \in UploadThreads : UploadStep(t)
                   \/ \E t \in UploadThreads : UploadPost(t)
                   \/ \E seconds \in {1} : \E max_size \in MaxSizes :
                         StateMaintenanceSync(seconds, max_size)
                   \/ LogSizeStep]_vars

InitLocking == InitLocks /\ SnapIdle /\ AgentIdle /\ WatchIdle /\ RestIdleExcept("locks")
SpecLocks ==
    InitLocking /\ [][\E t \in LockThreads :
                         \/ \E prog \in LockCalls(t) : LockCall(t, prog)
                         \/ LockAcquire(t)
                         \/ LockRelease(t)]_vars

InitWM == BeginWatchDirectory /\ SnapIdle /\ AgentIdle /\ WatchIdle /\ RestIdleExcept("wm")
SpecWM ==
    InitWM /\ [][\E c \in DirNames :
                    \/ FileCreated(c)
                    \/ FileMovedIn(c)
                    \/ FileRemoved(c)
                    \/ \E empty \in BOOLEAN : FileWritten(c, empty)
                    \/ initialize_watch(c)]_vars

\* the peer sent some messages and, of a last one, possibly only a part
InitRecv ==
    /\ \E lengths \in SeqsOf(0..MaxBody, 1, MaxMessages) :
         rx_in = [j \in 1..Len(lengths) |->
                     [type |-> j, body |-> [i \in 1..lengths[j] |-> 16 * j + i]]]
    /\ \E cut \in 0..Len(Frames(rx_in)) : rx_sent = SubSeq(Frames(rx_in), 1, cut)
    /\ rx_stream = rx_sent
    /\ NewConnection
    /\ SnapIdle /\ AgentIdle /\ WatchIdle /\ RestIdleExcept("recv")
SpecRecv ==
    InitRecv /\ [][\/ ReceiveCall
                   \/ \E k \in 1..(5 + MaxBody) : RecvBytes(k)
                   \/ RecvWouldBlock
                   \/ RecvZero]_vars

InitSched == InitJobs /\ SnapIdle /\ AgentIdle /\ WatchIdle /\ RestIdleExcept("sched")
SpecSched ==
    InitSched /\ [][\E seconds \in Intervals : \E max_size \in 0..1 :
                       start(seconds, max_size)]_vars

InitWatch == WatchInit /\ SnapIdle /\ AgentIdle /\ RestIdleExcept("none")
SpecWatch == InitWatch /\ [][WatchNext]_vars

\* the worker thread: "while True" with a sleep of one second in each turn
WorkerNext ==
    \/ WorkerBegin
    \/ ResolveScan
    \/ SelectLead
    \/ DoWorkPop
    \/ WorkInProgressStatus
    \/ WorkerAssign

\* SpecWorker: one proxy connects, its records all have the same data, and the
\* worker thread keeps taking its turns
SpecWorker == InitLead /\ [][AgentNext({1}, OneValue)]_vars /\ WF_vars(WorkerNext)

\* SpecFan: the acceptor, the event loop (lost connections, status replies),
\* the scheduler's request_log_content iteration by iteration, and the
\* worker electing the lead
SpecFan ==
    InitLead /\ [][\/ \E p \in Proxies : add_client(p)
                   \/ \E p \in Proxies : ConnectionLost(p)
                   \/ \E p \in Proxies : \E status \in {"RECEIVING", "NOT_FOUND"} :
                         ReceiveStatusTracked(p, status)
                   \/ RequestBegin
                   \/ RequestStep
                   \/ RequestReturn
                   \/ WorkerNext]_vars

\* ---------------------------------------------------------- Snapshot claims
\* the lines of an upload_prep result, and of the snapshot's current range
LinesOf(d) == d.firstLine .. d.lastLine
CurrentLines == first_line .. (get_next_line - 1)
\* how many of the returned ranges and the current range hold line n
Covering(n) ==
    Cardinality({i \in 1..Len(prepped) : n \in LinesOf(prepped[i])})
      + (IF n \in CurrentLines THEN 1 ELSE 0)
\* the records with line numbers a..b
RecordsOfLines(a, b) ==
    SubSeq(added, a - initial_first_line + 1, b - initial_first_line + 1)

\* C1: whenever no add_record or upload_prep call is inside the lock, the
\* ranges returned by upload_prep together with the snapshot's current range
\* cover every line of [f0, f0 + k) exactly once and no other line (f0 the
\* initial first_line, k the number of completed add_record calls), and each
\* returned fingerprint is the hash fold of the records of its range.
C1_NoRecordLoss ==
    MutexFree =>
        /\ \A n \in initial_first_line .. (initial_first_line + Len(added) - 1) :
              Covering(n) = 1
        /\ \A i \in 1..Len(prepped) :
              /\ prepped[i].firstLine >= initial_first_line
              /\ prepped[i].lastLine < initial_first_line + Len(added)
              /\ prepped[i].fingerprint
                    = HashFold(RecordsOfLines(prepped[i].firstLine, prepped[i].lastLine))
        /\ first_line >= initial_first_line
        /\ get_next_line = initial_first_line + Len(added)

\* two non-empty uploads were returned, a further record is in the snapshot
C1_Witness ==
    /\ MutexFree
    /\ Len(posts) >= 2
    /\ line_count >= 1

\* C2: after add_record(r1..rn) since the creation or the last reset,
\* line_count = n and cum_hash is the fold of r1..rn started from H("");
\* an empty snapshot has the hash H("").
C2_FingerprintLinearity ==
    MutexFree =>
        /\ line_count = Len(since_reset)
        /\ cum_hash = HashFold(since_reset)
        /\ (line_count = 0 => cum_hash = hash_fun(EmptyStr))

\* two records were added after an upload of a non-empty snapshot
C2_Witness ==
    /\ MutexFree
    /\ first_line > initial_first_line
    /\ line_count >= 2

\* ------------------------------------------------------------- agent claims
\* the children of the aggregate
Children == {p \in Proxies : req_status[p] # "NONE"}
\* the lead is elected and __select_lead has returned
LeadSettled == agg_lead # NoLead /\ wpc # "select"
\* the lead has streamed exactly the records hashed originally, then END
LeadStreamedOriginal ==
    /\ agg_lead # NoLead
    /\ req_status[agg_lead] = "CLOSED"
    /\ faithful[agg_lead]
    /\ req_next[agg_lead] = end_record + 1
\* the backend's list is not empty and starts at line 0
ListFromZero == backend_snapshots # <<>> /\ backend_snapshots[1].firstLine = 0

\* C3: when the lead has streamed exactly the records hashed originally, for a
\* snapshot list that starts at line 0, the job leaves the worker queue with
\* isCorrect=true posted.
C3_OriginalStreamPostsTrue ==
    (job_state = "dropped" /\ LeadStreamedOriginal /\ ListFromZero)
        => posted = <<TRUE>>

C5_ShortStreamPostsFalse ==
    (/\ job_state = "dropped"
     /\ agg_lead # NoLead
     /\ req_status[agg_lead] = "CLOSED"
     /\ req_content[agg_lead] = <<>>
     /\ remaining_snapshots # <<>>)
        => posted = <<FALSE>>

\* the connection of a child that is PENDING or RECEIVING is lost while the
\* job of its aggregate is queued and not finished
Orphaned ==
    /\ job_state = "queued"
    /\ ~validation_finished
    /\ \E p \in Children : sock[p] = "closed" /\ req_status[p] \in {"PENDING", "RECEIVING"}

\* C6: once the connection of a PENDING or RECEIVING child is lost, the job
\* of its aggregate does not stay in the worker queue forever.
C6_OrphanedJobLeavesQueue ==
    Orphaned ~> (job_state # "queued")

\* C7: after a protocol violation of one proxy the agent still runs.
C7_ViolationKeepsAgentRunning ==
    crash.kind # "none" => agent_running

\* the indices of the records of p's queue are consecutive and end before
\* next_record_index, none of them before begin_record
QueueConsecutive(p) ==
    LET q == req_content[p]
    IN  /\ \A i \in 1..Len(q) : q[i].ind = req_next[p] - Len(q) + i - 1
        /\ \A i \in 1..Len(q) : q[i].ind >= begin_record
        /\ req_next[p] >= begin_record

\* a step that appends to p's queue appends to a live request that has not got
\* all its records, a batch whose begin_record is the next_record_index, and
\* advances next_record_index by one per record
AppendsInOrder(p) ==
    req_next'[p] # req_next[p] =>
        /\ req_map[p]
        /\ ~got_all_requested_records(p)
        /\ \E n \in 1..MaxBatch :
              /\ req_next'[p] = req_next[p] + n
              /\ Len(req_content'[p]) = Len(req_content[p]) + n
              /\ \A i \in 1..Len(req_content[p]) : req_content'[p][i] = req_content[p][i]
              /\ req_content'[p][Len(req_content[p]) + 1].ind = req_next[p]

\* a request is created with an empty queue and next_record_index = begin_record
StartsAtBegin(p) ==
    req_status'[p] # "NONE" =>
        req_next'[p] = begin_record' /\ req_content'[p] = <<>>

\* a step in which add_records raises leaves every queue and index as it was
RefusalLeavesRequest ==
    (crash.kind = "none" /\ crash'.kind = "add_records") =>
        /\ UNCHANGED <<req_content, req_next>>
        /\ req_map[crash'.p]

\* C8: add_records appends a batch only to a live request that has not got all
\* its records and only if the batch's begin_record is the request's
\* next_record_index, which starts at begin_record and advances by one per
\* record; when it raises, queue and next_record_index are unchanged; so the
\* queue always holds records of consecutive indices in order.
C8_BatchesInOrder ==
    /\ [](\A p \in Children : QueueConsecutive(p))
    /\ [][/\ \A p \in Proxies \ Children : StartsAtBegin(p)
          /\ \A p \in Children : AppendsInOrder(p)
          /\ RefusalLeavesRequest]_vars

\* a second batch was refused after a first one had been appended
C8_Witness ==
    /\ crash.kind = "add_records"
    /\ req_content[crash.p] # <<>>

\* drop_content_request on a child leaves it terminal, and a second one
\* changes nothing
DropIsTerminalAndIdempotent(p) ==
    LET once == drop_content_request(req_status[p], req_map[p])
        twice == drop_content_request(once.status, once.inmap)
    IN  /\ once.status \in Terminal
        /\ ~once.inmap
        /\ twice = once

\* no step changes status or next_record_index of a terminal child, its queue
\* changes only by the worker's pop, and add_records does not raise for it
TerminalIsFrozen(p) ==
    req_status[p] \in Terminal =>
        /\ req_status'[p] = req_status[p]
        /\ req_next'[p] = req_next[p]
        /\ \/ req_content'[p] = req_content[p]
           \/ wpc = "pop" /\ p = agg_lead /\ req_content'[p] = Tail(req_content[p])
        /\ ~(crash.kind = "none" /\ crash'.kind = "add_records" /\ crash'.p = p)

\* C9: drop_content_request leaves a request of any status terminal and is
\* idempotent; a LogContentStatus or LogContentData for a terminal request
\* changes neither its status, nor its queue, nor its next_record_index, and
\* raises nothing.
C9_DropIdempotentWireIgnored ==
    /\ [](\A p \in Children : DropIsTerminalAndIdempotent(p))
    /\ [][\A p \in Children : TerminalIsFrozen(p)]_vars

\* a child was dropped, a message for it was handled, and the agent runs
C9_Witness ==
    /\ ignored
    /\ agent_running
    /\ \E p \in Children : req_status[p] = "DROPPED"

\* ----------------------------------------------------------- watcher claims
\* the complete lines of data, those that os.linesep ends, each without its
\* trailing whitespace
RECURSIVE CompleteLines(_)
CompleteLines(data) ==
    LET ends == {i \in 1..Len(data) : data[i] \in LinesepOnly}
    IN  IF ends = {} THEN <<>>
        ELSE LET n == CHOOSE i \in ends : \A j \in ends : i <= j
             IN  <<rstrip(SubSeq(data, 1, n))>>
                 \o CompleteLines(SubSeq(data, n + 1, Len(data)))

\* the data of the AddRecord messages sent, in order
RecordsSent ==
    LET adds == SelectSeq(sent, LAMBDA m : m.type = "AddRecord")
    IN  [i \in 1..Len(adds) |-> adds[i].data]

\* the sequence s without its first n elements
DropFirst(s, n) == SubSeq(s, n + 1, Len(s))

\* the LogPositionResponse has been processed
PositionProcessed == mpc \in {"read", "serving"}

\* C10: GetLogPosition is the first message sent for the file, no AddRecord
\* is sent before the LogPositionResponse is processed, and afterwards the
\* AddRecord messages carry exactly the complete lines that were read, from
\* line number position on, in file order.
C10_RecordsAreLinesFromPosition ==
    /\ sent # <<>> => sent[1].type = "GetLogPosition"
    /\ ~PositionProcessed => RecordsSent = <<>>
    /\ (PositionProcessed /\ proxy_running) =>
          RecordsSent = DropFirst(CompleteLines(SubSeq(file_content, 1, stream_pos)),
                                  start_line)

\* ------------------------------------------------------------------- C11
\* C11: the elected lead is the child whose proxy replied FOUND first: a
\* child that is streaming when it is the lead became RECEIVING before
\* every other child did.
C11_LeadRepliedFoundFirst ==
    (agg_lead # NoLead /\ req_status[agg_lead] = "RECEIVING")
        => first_found = agg_lead

\* ------------------------------------------------------------------- C12
\* C12: request_log_content returns one child for every connection that was
\* registered when the call began and is still alive when it returns,
\* whatever the event loop removes and the acceptor appends meanwhile.
C12_NoLiveConnectionSkipped ==
    fan_pc = "done" =>
        \A p \in fan_began :
            sock[p] = "open" => \E i \in 1..Len(agg_requests) : agg_requests[i] = p

\* ------------------------------------------------------------------- C13
\* the messages are FOUND, LogContentData batches, and END_SEND last
FoundDataEnd(msgs) ==
    /\ Len(msgs) >= 2
    /\ msgs[1] = LogContentStatus("FOUND_AND_BEGIN_SEND")
    /\ msgs[Len(msgs)] = LogContentStatus("END_SEND")
    /\ \A i \in 2..(Len(msgs) - 1) : msgs[i].type = "LogContentData"

\* C13: once the handling of a GetLogContent is over, the proxy has sent
\* either NOT_FOUND alone or FOUND, data batches and exactly one END_SEND,
\* also when the file has fewer lines than end_record + 1 or than
\* begin_record.
C13_AnswerEndsWithEnd ==
    cm_pc \in {"done", "exited"} =>
        \/ cm_sent = <<LogContentStatus("NOT_FOUND")>>
        \/ FoundDataEnd(cm_sent)

\* ------------------------------------------------------------------- C14
\* the whole messages in the order their sends acquired the mutex
RECURSIVE InOrder(_)
InOrder(ms) ==
    IF ms = <<>> THEN <<>>
    ELSE InOrder(SubSeq(ms, 1, Len(ms) - 1)) \o Buffer(ms[Len(ms)].t, ms[Len(ms)].k)

IsPrefix(a, b) == Len(a) <= Len(b) /\ a = SubSeq(b, 1, Len(a))

\* C14: the bytes handed to the socket are always a prefix of the
\* concatenation of the whole messages in mutex-acquisition order, and
\* between sends the queue holds exactly the rest of it, the remainder of a
\* partially sent message first.
C14_WireIsPrefixInOrder ==
    /\ IsPrefix(wire, InOrder(acquired))
    /\ send_mutex = "free" => wire \o Flatten(send_queue) = InOrder(acquired)

\* between two sends the queue holds the remainder of a partially sent
\* message, and behind it a whole message another thread queued later
C14_Witness ==
    /\ send_mutex = "free"
    /\ Len(send_queue) >= 2
    /\ Len(send_queue[1]) < MsgLen
    /\ send_queue[1][1].t # send_queue[2][1].t
    /\ wire # <<>>

\* ------------------------------------------------------------------- C15
\* C15: no validator job is lost: a job verify_log appended stays in
\* LogValidator.requests until a worker iteration has visited it, also
\* when the append falls between the end of the worker's loop and its
\* assignment of the new list.
C15_NoJobLost ==
    ~(job_state = "lost" /\ ~validation_finished)

\* ------------------------------------------------------------------- C16
\* C16: POST /snapshot is issued only for a snapshot that held at least one
\* line when upload_prep ran; uploading an empty snapshot posts nothing and
\* leaves first_line, line_count and cum_hash as they were.
C16_EmptySnapshotNotPosted ==
    /\ [](\A i \in 1..Len(posts) : posts[i].lastLine - posts[i].firstLine + 1 >= 1)
    /\ [][\A t \in SchedThreads :
            /\ (spc[t] = "prep_reset" /\ spc'[t] = "prep_exit" /\ line_count = 0)
                  => (first_line' = first_line /\ line_count' = line_count
                      /\ cum_hash' = cum_hash)
            /\ (spc[t] = "post" /\ spc'[t] = "idle"
                 /\ slocal[t].data.lastLine - slocal[t].data.firstLine + 1 = 0)
                  => posts' = posts]_vars

\* an upload of an empty snapshot has completed after one that was posted
C16_Witness ==
    /\ \A t \in SchedThreads : spc[t] = "idle"
    /\ Len(prepped) >= 2
    /\ prepped[Len(prepped)].lastLine < prepped[Len(prepped)].firstLine
    /\ Len(posts) = 1
    /\ line_count = 0

\* ------------------------------------------------------------------- C17
\* C17: a job created for a log without snapshots finishes in its
\* constructor: isCorrect = true is posted exactly once, when the job is
\* created, whatever the proxies answer afterwards.
C17_EmptyLogPostsTrueOnce ==
    backend_snapshots = <<>> =>
        IF job_state = "none" THEN posted = <<>> ELSE posted = <<TRUE>>

\* the lead of such a job delivered a record, the worker popped it, the lead
\* closed and the job left the queue
C17_Witness ==
    /\ backend_snapshots = <<>>
    /\ posted = <<TRUE>>
    /\ agg_lead = 1
    /\ req_next[1] = 1
    /\ req_content[1] = <<>>
    /\ job_state = "dropped"

\* ------------------------------------------------------------------- C18
\* C18: for each of the six message kinds, deserializing the frame that
\* serialize produced (type byte, 4-byte big-endian length, payload) yields
\* the message's type and payload fields: decode(encode(m)) = m.
C18_FramingRoundTrip ==
    /\ codec_pc = "decoded" => codec_out = codec_msg
    /\ codec_pc \in {"framed", "decoded"} =>
          /\ Len(codec_frame) = 5 + from_bytes(SubSeq(codec_frame, 2, 5))
          /\ codec_frame[1] = codec_msg.type

\* a LogContentData batch of two records came back whole
C18_Witness ==
    /\ codec_pc = "decoded"
    /\ codec_out.type = 6
    /\ Len(codec_out.contents) = 2
    /\ codec_out.contents[1] # codec_out.contents[2]

\* ------------------------------------------------------------------- C19
\* the collector's dict holds name n
Registered(n) == \E i \in 1..Len(coll_order) : coll_order[i] = n

\* the POST /log calls made for name n
LogPosts(n) == SelectSeq(backend_calls, LAMBDA c : c.op = "log" /\ c.name = n)

\* C19: POST /log is issued exactly once per log name, on the first
\* AddRecord for a name the collector does not know: never for a
\* rehydrated name and never on GetLogPosition. It precedes every POST
\* /snapshot for the log, and every POST /snapshot carries the id the
\* backend minted or returned at start for that name.
C19_LogPostedOnceBeforeSnapshots ==
    /\ [](\A n \in Names :
            /\ Len(LogPosts(n)) =
                  IF n \notin rehydrated
                     /\ (Registered(n) \/ (coll_pc.pc = "store" /\ coll_pc.name = n))
                  THEN 1 ELSE 0
            /\ \A i \in 1..Len(backend_calls) :
                  (backend_calls[i].op = "snapshot" /\ backend_calls[i].name = n) =>
                      /\ backend_calls[i].logId = backend_id[n]
                      /\ backend_id[n] # 0
                      /\ n \in rehydrated
                          \/ \E j \in 1..(i - 1) :
                                /\ backend_calls[j].op = "log"
                                /\ backend_calls[j].name = n
                                /\ backend_calls[j].id = backend_calls[i].logId)
    /\ [][pos_reply' # pos_reply => backend_calls' = backend_calls]_vars
    /\ [][\A n \in Names :
            Len(LogPosts(n))' > Len(LogPosts(n)) =>
                ~Registered(n) /\ coll_n' = coll_n + 1]_vars

\* snapshots were posted for a rehydrated log and for one registered on its
\* first AddRecord, after a GetLogPosition for the unknown name
C19_Witness ==
    /\ rehydrated = {"x"}
    /\ \E i, j \in 1..Len(backend_calls) :
         /\ backend_calls[i].op = "snapshot" /\ backend_calls[i].name = "x"
         /\ backend_calls[j].op = "snapshot" /\ backend_calls[j].name = "y"
    /\ pos_reply = <<[name |-> "y", position |-> 0]>>

\* ------------------------------------------------------------------- C20
\* C20: after every sync_config a periodic upload job exists iff the
\* snapshotInterval it read is > 0; an interval <= 0 removes the job, a
\* change from one positive interval to another reschedules the same job
\* object, and the scheduler never holds more than one periodic upload job.
C20_UploadJobFollowsInterval ==
    last_sync.did # "none" =>
        /\ (sched_job # NoJob) <=> (last_sync.seconds > 0)
        /\ Cardinality(sched_live) <= 1
        /\ sched_live = IF sched_job # NoJob THEN {sched_job.id} ELSE {}
        /\ (last_sync.old > 0 /\ last_sync.seconds <= 0) => last_sync.did = "remove"
        /\ (last_sync.old > 0 /\ last_sync.seconds > 0
            /\ last_sync.seconds # last_sync.old)
              => (last_sync.did = "reschedule"
                  /\ sched_job.interval = last_sync.seconds)

\* ------------------------------------------------------------------- C21
\* C21: a state-maintenance run calls upload_records iff the maxRecordCount
\* it just synced is > 0 and the total line_count of the snapshots exceeds
\* it: a run that uploaded had a limit > 0 and a total above the limit at
\* some moment of its log_size() call, and a run that ended without an
\* upload had a limit <= 0 or a total within the limit at some moment of it.
C21_MaintenanceUploadsIffOverLimit ==
    sm.pc = "done" =>
        /\ sm.result = "upload" =>
              (max_log_size > 0 /\ coll_range.hi > max_log_size)
        /\ sm.result # "upload" =>
              (max_log_size <= 0 \/ coll_range.lo <= max_log_size)

\* ------------------------------------------------------------------- C22
\* the locks thread t holds are all the same lock (an RLock held again)
HoldsOneLock(t) ==
    \A i, j \in 1..Len(held[t]) : held[t][i] = held[t][j]

\* C22 as stated: no thread ever holds two different locks; every lock is
\* a leaf lock.
C22_AllLocksLeaf == \A t \in LockThreads : HoldsOneLock(t)

\* C22: the send mutex, the per-request status mutex and the snapshot lock
\* are leaf locks; the only thread that holds two different locks is one in
\* ContentRequestHandler.set_status, which holds the request-handler mutex
\* of a connection and, inside it, the status mutex of that connection's
\* request.
C22_OnlyStatusNestsInHandler ==
    \A t \in LockThreads :
        \/ HoldsOneLock(t)
        \/ \E p \in Proxies : held[t] = <<Lk("request", p), Lk("status", p)>>

C22_Witness ==
    \E p \in Proxies :
        /\ held["loop"] = <<Lk("request", p), Lk("status", p)>>
        /\ held["verify"] = <<Lk("send", p)>>
        /\ Len(held["upload"]) = 3

\* ------------------------------------------------------------------- C23
\* thread t is at an acquire that cannot succeed now
Waiting(t) ==
    /\ lk_prog[t] # <<>>
    /\ Head(lk_prog[t]).op = "acquire"
    /\ ~CanAcquireLock(t, Head(lk_prog[t]).lock)
\* the thread holding the lock the waiting thread t is after
HolderOfWanted(t) == CHOOSE u \in LockThreads : Holds(u, Head(lk_prog[t]).lock)

\* C23: no deadlock among the agent's threads: whenever a thread waits for
\* a lock, the holder of that lock is not waiting for a lock held by a
\* waiting thread.
C23_NoDeadlock ==
    \A t \in LockThreads :
        Waiting(t) =>
            LET h == HolderOfWanted(t)
            IN  ~(Waiting(h) /\ Waiting(HolderOfWanted(h)))

\* the event loop, inside the handler's lock, waits for the status mutex the
\* worker's get_status holds, while verify_logs waits for the handler's lock
C23_Witness ==
    /\ Waiting("verify") /\ HolderOfWanted("verify") = "loop"
    /\ Waiting("loop") /\ HolderOfWanted("loop") = "worker"
    /\ ~Waiting("worker")

\* ------------------------------------------------------------------- C24
\* C24: a watcher anomaly - a watched file that disappears, an empty write,
\* a begin_watch for a path already watched - never ends the proxy process;
\* it logs a warning and the watch of that path is removed.
C24_AnomalyOnlyWarns ==
    /\ wm_alive
    /\ wm_last.kind \in {"disappeared", "empty write", "already watched"} =>
          (wm_last.warned /\ wm_last.path \notin wm_events)

\* ------------------------------------------------------------------- C25
\* first_line + line_count of the snapshot of n
NextLineOf(snap, n) == snap[n].first_line + snap[n].line_count
\* the first_line the snapshot of n began with plus the records collected
\* for n
BeganPlusCollected(n) == coll_hist[n].first_line + coll_hist[n].collected

\* C25: the position returned for GetLogPosition is 0 for an unknown log
\* and, for a known one, the first_line its snapshot began with (the
\* rehydrated value, 0 for a log registered later) plus the number of
\* records collected for it; upload_prep and reset leave next_line
\* unchanged, so the position never decreases, whatever uploads happened.
C25_PositionIsFirstLinePlusCollected ==
    /\ [](\A n \in Names :
            Registered(n) => NextLineOf(coll_snap, n) = BeganPlusCollected(n))
    /\ [][/\ Len(pos_reply') > Len(pos_reply) =>
                LET r == pos_reply'[Len(pos_reply')]
                IN  r.position = IF Registered(r.name)
                                 THEN BeganPlusCollected(r.name) ELSE 0
          /\ \A n \in Names :
                Registered(n) =>
                    /\ NextLineOf(coll_snap', n) >= NextLineOf(coll_snap, n)
                    /\ coll_hist' = coll_hist =>
                          NextLineOf(coll_snap', n) = NextLineOf(coll_snap, n)]_vars

\* a log rehydrated at line 1 got a record, was uploaded, and got another
\* record before its position was asked: 1 + 2
C25_Witness ==
    /\ coll_hist["x"].first_line = 1
    /\ pos_reply = <<[name |-> "x", position |-> 3]>>
    /\ coll_snap["x"].first_line = 2
    /\ \E i \in 1..Len(backend_calls) :
          /\ backend_calls[i].op = "snapshot"
          /\ backend_calls[i].name = "x"
          /\ backend_calls[i].firstLine = 1 /\ backend_calls[i].lastLine = 1

\* ------------------------------------------------------------------- C26
\* the bytes recv returned for the message that is being gathered
Gathered ==
    IF rx_msg # NoMessage
    THEN to_bytes(rx_msg.type, 1) \o to_bytes(rx_msg.length, 4)
         \o SubSeq(rx_buffer, 1, rx_position)
    ELSE IF rx_pc = "header" THEN SubSeq(rx_buffer, 1, rx_position)
    ELSE <<>>

\* C26: for any split of the stream into recv chunks and would-blocks, the
\* deserializer gets each message with exactly its 5 header bytes and its
\* declared body, in stream order; no byte is lost, duplicated or
\* reordered across receive() calls (the delivered frames, the bytes
\* gathered for the current message and the bytes not yet received are the
\* stream the peer sent); ConnectionError is raised only on a recv of zero
\* bytes, which leaves every complete message delivered.
C26_ReceiveKeepsEveryByte ==
    /\ Len(rx_delivered) <= Len(rx_in)
    /\ \A j \in 1..Len(rx_delivered) : rx_delivered[j] = rx_in[j]
    /\ rx_pc # "raised" => Frames(rx_delivered) \o Gathered \o rx_stream = rx_sent
    /\ rx_pc = "raised" =>
          /\ rx_stream = <<>>
          /\ \A j \in 1..Len(rx_in) :
                Len(Frames(SubSeq(rx_in, 1, j))) <= Len(rx_sent)
                    => j <= Len(rx_delivered)

\* receive() returned False on a would-block in the middle of the second
\* message's body, the first message delivered
C26_Witness ==
    /\ Len(rx_delivered) = 1
    /\ rx_pc = "idle"
    /\ rx_msg = [type |-> 2, length |-> 2]
    /\ rx_position = 1
    /\ Len(rx_stream) = 1

\* ------------------------------------------------------------------- C27
\* the LogContentData messages sent, in order
Batches == SelectSeq(cm_sent, LAMBDA m : m.type = "LogContentData")
\* the records sent in the first n batches
RECURSIVE RecordsIn(_, _)
RecordsIn(bs, n) == IF n = 0 THEN 0 ELSE RecordsIn(bs, n - 1) + Len(bs[n].records)

\* C27: for a found log and a request [begin, end], every LogContentData
\* batch holds between 1 and 20 records, as many as last - first + 1; the
\* first batch starts at begin and each following one at the previous
\* batch's last index + 1; no record beyond end is sent; and the answer
\* ends with all the requested records, or with all the lines the file has
\* from begin on when it ends before end + 1.
C27_BatchesOfTwentyInOrder ==
    /\ \A i \in 1..Len(Batches) :
          /\ Len(Batches[i].records) \in 1..20
          /\ Len(Batches[i].records) = Batches[i].end_record - Batches[i].begin_record + 1
          /\ Batches[i].begin_record = IF i = 1 THEN cm_begin
                                       ELSE Batches[i - 1].end_record + 1
          /\ Batches[i].end_record <= cm_end
    /\ (cm_pc = "done" /\ cm_watched) =>
          LET have == Len(readlines(cm_file)) - cm_begin
              asked == cm_end - cm_begin + 1
          IN  RecordsIn(Batches, Len(Batches)) = IF have < asked THEN have ELSE asked

\* three batches, of 20, 20 and 1 records, answered a request for 0..41 on
\* a file that ends at line 40
C27_Witness ==
    /\ cm_pc = "done"
    /\ cm_begin = 0 /\ cm_end = 41
    /\ Len(Batches) = 3
    /\ Batches[2].begin_record = 20 /\ Batches[2].end_record = 39
    /\ Batches[3].begin_record = 40 /\ Batches[3].end_record = 40


\* ------------------------------------------------------------------- C28
\* what follows the last os.linesep of data: the piece that is not yet a line
Unterminated(data) ==
    LET ends == {i \in 1..Len(data) : data[i] \in LinesepOnly}
    IN  IF ends = {} THEN data
        ELSE LET n == CHOOSE i \in ends : \A j \in ends : i >= j
             IN  SubSeq(data, n + 1, Len(data))

\* C28: however the appended bytes are split over the reads, the stash holds
\* the piece after the last line terminator read, and the records emitted are
\* whole complete lines of the file, each once and in order: never a fragment
\* of a line, never two lines merged.
C28_StashMakesLinesWhole ==
    LET read == SubSeq(file_content, 1, stream_pos)
        lines == CompleteLines(read)
    IN  (PositionProcessed /\ proxy_running) =>
            /\ prev_line = Unterminated(read)
            /\ Len(RecordsSent) <= Len(lines)
            /\ RecordsSent = DropFirst(lines, Len(lines) - Len(RecordsSent))


\* ------------------------------------------------------------------- C29
\* the child p was pruned from the aggregate's list in NOT_FOUND or DROPPED
Pruned(p) ==
    /\ \A i \in 1..Len(agg_requests) : agg_requests[i] # p
    /\ req_status[p] \in {"NOT_FOUND", "DROPPED"}

\* work_in_progress finds the aggregate dead and finishes the validation
FinishesDeadJob == wpc = "pop" /\ wpc' = "assign" /\ is_dead /\ agent_running'

\* the worker replaces its queue after a turn in which the job was found dead
DropsDeadJob ==
    wpc = "assign" /\ wpc' = "sleep" /\ is_dead /\ wseen /\ agent_running'

\* C29: while the agent runs, once the aggregate exists it is dead iff no
\* lead was elected and every child was pruned in NOT_FOUND or DROPPED (no child at all included); when
\* work_in_progress finds the aggregate of a job with a non-empty snapshot
\* list dead, isCorrect=false is posted, and the job leaves the worker queue
\* at the end of that turn.
C29_DeadIffAllPrunedThenPostsFalse ==
    /\ []((agent_running /\ job_state # "none") =>
            (is_dead <=> (elected = {} /\ \A p \in Children : Pruned(p))))
    /\ []((agent_running /\ job_state = "dropped" /\ is_dead
                /\ backend_snapshots # <<>>)
            => posted = <<FALSE>>)
    /\ [][(FinishesDeadJob /\ backend_snapshots # <<>>)
            => posted' = Append(posted, FALSE)]_vars
    /\ [][DropsDeadJob => (job_state = "queued" /\ job_state' = "dropped")]_vars

\* a job whose two children both answered NOT_FOUND has left the queue
C29_Witness ==
    /\ agent_running
    /\ job_state = "dropped"
    /\ is_dead
    /\ backend_snapshots # <<>>
    /\ Cardinality(Children) = 2
    /\ posted = <<FALSE>>


\* ------------------------------------------------------------------- C30
\* the absolute line index of the record at the head of the lead's queue
HeadIndex == req_next[agg_lead] - Len(req_content[agg_lead])

\* the job folds the record at the head of the lead's queue
FoldsRecord == agg_lead # NoLead /\ records_counter' = records_counter + 1

\* C30: the record a job folds is a line of its first remaining snapshot s;
\* the fold starts from H("") at line s.firstLine; the snapshot is compared
\* and popped, and the running hash reset to H(""), exactly when line
\* s.lastLine is folded - whatever the firstLine of the first snapshot.
C30_FoldCoversSnapshotLines ==
    [][FoldsRecord =>
         LET s == remaining_snapshots[1]
         IN  /\ s.firstLine <= HeadIndex /\ HeadIndex <= s.lastLine
             /\ HeadIndex = s.firstLine => fingerprint = hash_fun(EmptyStr)
             /\ HeadIndex = s.lastLine
                  <=> remaining_snapshots' = Tail(remaining_snapshots)
             /\ HeadIndex = s.lastLine => fingerprint' = hash_fun(EmptyStr)]_vars


\* ------------------------------------------------------------------- C31
\* the changes of status the state machine of a ContentRequest has, with the
\* creation of the request by the fan-out
StatusChanges ==
    {<<"NONE", "PENDING">>, <<"PENDING", "RECEIVING">>, <<"RECEIVING", "CLOSED">>,
     <<"PENDING", "NOT_FOUND">>, <<"PENDING", "DROPPED">>, <<"RECEIVING", "DROPPED">>}

\* C31: whatever LogContentStatus messages arrive for a request and whatever
\* is dropped, its status changes only along PENDING -> RECEIVING,
\* RECEIVING -> CLOSED, PENDING -> NOT_FOUND and {PENDING, RECEIVING} ->
\* DROPPED: CLOSED is reached from RECEIVING only, NOT_FOUND from PENDING
\* only, and CLOSED, NOT_FOUND and DROPPED are never left.
C31_StatusFollowsStateMachine ==
    [][\A p \in Proxies :
          req_status'[p] # req_status[p]
              => <<req_status[p], req_status'[p]>> \in StatusChanges]_vars


\* ------------------------------------------------------------------- C32
\* C32: a job that has not posted its result leaves the worker queue only
\* when the queue of its lead is drained: the records the event loop had
\* appended before it set the lead CLOSED have all been popped, also when
\* they arrived between do_work and work_in_progress of the same turn.
C32_DroppedOnlyWhenDrained ==
    (agent_running /\ job_state = "dropped" /\ agg_lead # NoLead
        /\ ~validation_finished)
        => req_content[agg_lead] = <<>>


\* ------------------------------------------------------------------- C33
\* the worker takes the record at the head of the lead's queue
PopsRecord ==
    /\ agg_lead # NoLead
    /\ req_content[agg_lead] # <<>>
    /\ req_content'[agg_lead] = Tail(req_content[agg_lead])
    /\ agent_running'

\* C33: every record do_work takes from the lead's queue of a job that has
\* not finished is counted and folded into the running hash, the empty
\* record too, and the draining of the queue goes on after it.
C33_EveryRecordFolded ==
    [][(PopsRecord /\ ~validation_finished) =>
          LET new_record == Head(req_content[agg_lead]).data
              fp == hash_fun(fingerprint \o new_record)
          IN  /\ records_counter' = records_counter + 1
              /\ fingerprint' \in {fp, hash_fun(EmptyStr)}
              /\ wpc' = "pop"]_vars


\* ------------------------------------------------------------------- C34
\* the watcher is initialized and inotify holds no modify event for the
\* file: nothing makes the watcher read until the file is written again
WatcherAtRest == proxy_running /\ mpc = "serving" /\ modify_events = 0

\* C34: when the initialized watcher is at rest, everything appended to the
\* file has been read (so every complete line was handed to read_records'
\* loop), also what was appended while initialize was between its catch-up
\* read and the setting of the initialized flag.
C34_NothingLeftUnread == WatcherAtRest => stream_pos = Len(file_content)


\* ------------------------------------------------------------------- C35
\* C35: a sync_config that reads the interval the periodic upload job is
\* scheduled with leaves the job alone: it does not reschedule it (a
\* reschedule starts the job's interval anew).
C35_SameIntervalLeavesJobAlone ==
    (last_sync.did # "none" /\ last_sync.seconds > 0
        /\ last_sync.old = last_sync.seconds)
        => last_sync.did = "nothing"


\* ------------------------------------------------------------------- C36
\* no thread is inside NetworkConnection.send: only a new send call makes
\* the connection touch its send queue
NoSendInProgress ==
    send_mutex = "free" /\ \A t \in SendThreads : send_pc[t] = "idle"

\* C36: bytes do not wait in the send queue for a later send call: when no
\* send is in progress the queue is empty, every message passed to send
\* having been handed to the socket in full.
C36_QueueDrainsWithoutLaterSend == NoSendInProgress => send_queue = <<>>


\* ------------------------------------------------------------------- C37
\* C37: a job posts at most one result, and once it has finished, nothing
\* that arrives or is popped afterwards changes what was posted.
C37_PostsAtMostOnce ==
    /\ [](Len(posted) <= 1)
    /\ [][validation_finished => posted' = posted]_vars

\* the first record of the lead did not match the first of two snapshots,
\* isCorrect=false was posted, and the second record was popped after that
C37_Witness ==
    /\ agent_running
    /\ Len(backend_snapshots) = 2
    /\ orig[1] = EmptyStr
    /\ backend_snapshots[1].firstLine = 0
    /\ agg_lead = 1
    /\ ~faithful[1]
    /\ req_next[1] = 2
    /\ req_content[1] = <<>>
    /\ records_counter = 1
    /\ validation_finished
    /\ posted = <<FALSE>>


\* ------------------------------------------------------------------- C38
\* C38: the next_record_index of every request stays within begin_record ..
\* end_record + 1: no record with an index beyond end_record is enqueued.
C38_IndexWithinRequest ==
    \A p \in Children :
        begin_record <= req_next[p] /\ req_next[p] <= end_record + 1


\* ------------------------------------------------------------------- C39
\* C39: the POST /snapshot calls of one log reach the backend in increasing
\* firstLine order, also with the periodic upload and an upload of the
\* state-maintenance job running at the same time.
C39_PostsInFirstLineOrder ==
    \A i, j \in 1..Len(backend_calls) :
        (/\ i < j
         /\ backend_calls[i].op = "snapshot"
         /\ backend_calls[j].op = "snapshot"
         /\ backend_calls[i].name = backend_calls[j].name)
            => backend_calls[i].firstLine < backend_calls[j].firstLine

====
